---- MODULE Spec2Model ----
(***************************************************************************)
(* Model of the Engine API header-processing core of erigon:               *)
(*   turbo/engineapi/fork_validator.go  (ForkValidator)                    *)
(*   eth/stagedsync/stage_finish.go     (FinishForward, HeadersPOS, ...)   *)
(*                                                                         *)
(* Spec      : the ForkValidator driven through its public entry points,   *)
(*             one whole call per step (the mutex serialises the calls).   *)
(* SpecLock  : the same entry points run by two goroutines, a step per     *)
(*             lock acquisition, method body and deferred call.            *)
(* SpecStage : the stage loop in proof-of-stake mode: SpawnStageHeaders    *)
(*             (HeadersPOS, finishHandlingForkChoice), the unwind it asks  *)
(*             for, FinishForward, the commit with the deferred reply, and *)
(*             the consensus layer and the PoS downloader around it.       *)
(* SpecMode  : SpecStage started with TerminalTotalDifficultyPassed unset, *)
(*             so that every invocation decides between HeadersPOW and     *)
(*             HeadersPOS from the store.                                  *)
(* SpecCanon : HeadersUnwind's truncation of the canonical index and       *)
(*             fixCanonicalChain, on every store whose index is the chain  *)
(*             of its head header.                                         *)
(* SpecStatus: SpecStage with requests that enter the request list as New  *)
(*             or as DataWasMissing.                                       *)
(* SpecChoice: the stage loop serving fork choices that also name safe and *)
(*             finalized blocks, canonical or not.                         *)
(* SpecReorg : the stage loop on a store that also holds the headers of    *)
(*             the long fork, serving fork choices to its blocks.          *)
(* SpecFix   : fixCanonicalChain from any stored header after any          *)
(*             truncation, so that the index holds markers of several      *)
(*             chains.                                                     *)
(* SpecUnwind: HeadersUnwind with and without a bad block, in test mode or *)
(*             not, on stores that hold headers beside the head's chain.   *)
(* SpecFinish: FinishForward with a head channel, after payloads were      *)
(*             validated on the overlay and flushed.                       *)
(***************************************************************************)
EXTENDS Integers, Sequences, FiniteSets, TLC

\* ------------------------------------------------------------------------
\* Program constants
\* ------------------------------------------------------------------------

\* const maxForkDepth = 32
maxForkDepth == 32

\* common.Hash{}: the zero hash
ZeroHash == "0x0"

\* a nil pointer (extendingFork, body, ...)
Nil == [nil |-> TRUE]

\* ------------------------------------------------------------------------
\* Bounds of the model
\* ------------------------------------------------------------------------

\* transaction handles a caller may pass: 1..MaxTxn
MaxTxn == 2

\* the store reads of one side-fork assembly that may fail: the k-th read,
\* k in 1..MaxFailAt (0: no read fails)
MaxFailAt == 3

\* the blocks headCh buffers
HeadChCap == 1

\* ------------------------------------------------------------------------
\* The block universe.  A header is identified by its hash; its number and
\* parent hash are functions of the hash (hash = H(header)).
\*
\*    G(0) --- A(1) --- B(2) --- C(3)            canonical G, A; head A
\*      \
\*       X(1) --- Y(2) --- W(3)                   side fork branching at 0
\*
\*    E(34) --- F(35)                             far ahead; E and its ancestors are
\*                                               in no store and no peer has them
\*
\*    G(0) --- L1(1) --- L2(2) --- ... --- L11(11)  a long fork branching at 0
\* ------------------------------------------------------------------------
G == "G"
A == "A"
B == "B"
C == "C"
X == "X"
Y == "Y"
W == "W"
E == "E"
F == "F"

Hashes == {G, A, B, C, X, Y}

\* the long fork, oldest first: LongFork[i] has number i and parent
\* LongFork[i - 1] (G for i = 1)
LongFork == <<"L1", "L2", "L3", "L4", "L5", "L6", "L7", "L8", "L9", "L10", "L11">>
LongForkHashes == {LongFork[i] : i \in DOMAIN LongFork}
LongForkIndex(h) == CHOOSE i \in DOMAIN LongFork : LongFork[i] = h

Number(h) ==
    CASE h = G -> 0
      [] h = A -> 1
      [] h = B -> 2
      [] h = C -> 3
      [] h = X -> 1
      [] h = Y -> 2
      [] h = W -> 3
      [] h = E -> 34
      [] h = F -> 35
      [] h \in LongForkHashes -> LongForkIndex(h)
      [] OTHER -> 0

ParentHash(h) ==
    CASE h = G -> ZeroHash
      [] h = A -> G
      [] h = B -> A
      [] h = C -> B
      [] h = X -> G
      [] h = Y -> X
      [] h = W -> Y
      [] h = F -> E
      [] h \in LongForkHashes ->
            IF LongForkIndex(h) = 1 THEN G ELSE LongFork[LongForkIndex(h) - 1]
      [] OTHER -> ZeroHash

\* blocks that carry uncles (proof-of-work side blocks)
PoWBlocks == {X}

\* block.RawBody(): the encoded transactions and uncles of block h
RawBody(h) == [transactions |-> h, uncles |-> IF h \in PoWBlocks THEN {h} ELSE {}]

\* &types.RawBody{Transactions: encodedTxs}: the body rebuilt from the
\* transactions read back from the batch; it has no uncles
RecoveredBody(h) == [transactions |-> h, uncles |-> {}]

\* the block numbers of the universe
Numbers == Number(G)..Len(LongFork)

\* a height far from the blocks above: B (and G, A, X, Y) is more than
\* maxForkDepth below it, C is exactly maxForkDepth below it
FarHeight == Number(C) + maxForkDepth

\* the payloads handed to ValidatePayload (ExtendPayloads: with extendCanonical),
\* the blocks handed to TryAddingPoWBlock, the heights handed to NotifyCurrentHeight
Payloads == {B, C, X, Y, W}
ExtendPayloads == {B, C}
PoWInputs == PoWBlocks
Heights == {Number(A), FarHeight}

\* math.AbsoluteDifference
AbsoluteDifference(x, y) == IF x > y THEN x - y ELSE y - x

\* remote.EngineStatus; the zero value of the enum is VALID
StatusValues == {"VALID", "INVALID", "SYNCING", "ACCEPTED"}
ZeroStatus == "VALID"

\* ------------------------------------------------------------------------
\* State
\* ------------------------------------------------------------------------
VARIABLES
    sideForksBlock,         \* fv.sideForksBlock: hash -> forkSegment (the body; the header is the hash)
    extendingFork,          \* fv.extendingFork: Nil or a memory batch [txn, writes, live]
    extendingForkHeadHash,  \* fv.extendingForkHeadHash
    currentHeight,          \* fv.currentHeight
    validatePayload,        \* fv.validatePayload is set (FALSE: NewForkValidatorMock)
    memBatches,             \* memory batches created and not rolled back
    db,                     \* the persistent store as seen through the caller's transaction
    call                    \* the last call: its arguments, what it did and what it returned

\* goroutines calling the ForkValidator concurrently (SpecLock)
VARIABLES
    lock,                   \* fv.lock: the goroutine holding it, or NoProc
    pc,                     \* where each goroutine is in the method it called
    crashed                 \* the runtime stopped the program (concurrent map access detected)

\* the headers stage and the stage loop around it (SpecStage)
VARIABLES
    cfg,                    \* HeadersCfg: memoryOverlay, accumulator, useExternalTx (tx != nil), test,
                            \* chainConfig.TerminalTotalDifficultyPassed
    hd,                     \* cfg.hd: the HeaderDownload fields the stage uses, and its BeaconRequestList
    PayloadStatusCh,        \* cfg.hd.PayloadStatusCh: Nil or the reply waiting to be read
    loop,                   \* the stage loop: phase of the cycle, unwind requested, committed store
    step,                   \* the last step of the stage: what ran, for which request, what it pushed
    order                   \* request ids in the order first dequeued and replied to; the heads asked for

fvVars == <<sideForksBlock, extendingFork, extendingForkHeadHash, currentHeight,
            validatePayload, memBatches, db>>
lockVars == <<lock, pc, crashed>>
stageVars == <<cfg, hd, PayloadStatusCh, loop, step, order>>
vars == <<fvVars, call, lockVars, stageVars>>

\* the state the ForkValidator's methods work on, as one value
Sys == [sideForksBlock |-> sideForksBlock,
        extendingFork |-> extendingFork,
        extendingForkHeadHash |-> extendingForkHeadHash,
        currentHeight |-> currentHeight,
        validatePayload |-> validatePayload,
        memBatches |-> memBatches,
        db |-> db]

Install(s) ==
    /\ sideForksBlock' = s.sideForksBlock
    /\ extendingFork' = s.extendingFork
    /\ extendingForkHeadHash' = s.extendingForkHeadHash
    /\ currentHeight' = s.currentHeight
    /\ validatePayload' = s.validatePayload
    /\ memBatches' = s.memBatches
    /\ db' = s.db

\* header: the header validated or added; for FlushExtendingFork, ClearWithUnwind and
\*         NotifyCurrentHeight the extendingForkHeadHash the call found
\* txn:    the transaction the extending fork was bound to by the call (0: none)
\* validate: what the validatePayload capability answered ("none": it was not invoked)
\* unwindPoint, headersChain, bodiesChain: the arguments validate was invoked with
\* walkUnwindPoint: unwindPoint when the backward assembly ended, before "Do not
\*         set an unwind point if we are already there"
\* read:   what notifyTxPool's reads gave ("none": it was not invoked)
NoCall == [op |-> "none", txn |-> 0, header |-> ZeroHash, withBody |-> FALSE,
           extendCanonical |-> FALSE, accumulator |-> FALSE, path |-> "none",
           validate |-> "none", read |-> "none",
           status |-> ZeroStatus, latestValidHash |-> ZeroHash,
           validationError |-> FALSE, criticalError |-> FALSE,
           newBatch |-> FALSE, notify |-> <<>>, height |-> 0,
           walkUnwindPoint |-> 0, unwindPoint |-> 0,
           headersChain |-> <<>>, bodiesChain |-> <<>>]

\* ------------------------------------------------------------------------
\* memdb.MemoryMutation
\* ------------------------------------------------------------------------

\* memdb.NewMemoryBatch(tx)
NewMemoryBatch(txn) == [txn |-> txn, writes |-> {}, live |-> TRUE]

\* (*MemoryMutation).UpdateTxn(tx)
UpdateTxn(batch, txn) == [batch EXCEPT !.txn = txn]

\* (*MemoryMutation).Rollback() of the extending fork: the writes are dropped;
\* a second Rollback of the same batch changes nothing
RollbackExtendingFork(s) ==
    IF s.extendingFork = Nil THEN s
    ELSE [s EXCEPT !.extendingFork = [@ EXCEPT !.writes = {}, !.live = FALSE],
                   !.memBatches = IF s.extendingFork.live THEN @ - 1 ELSE @]

\* rawdb.IsCanonicalHash(tx, hash): the header is known and the canonical
\* hash at its number is this hash
IsCanonicalHash(d, hash) == hash \in d.headers /\ d.canonical[Number(hash)] = hash


\* ------------------------------------------------------------------------
\* ForkValidator (turbo/engineapi/fork_validator.go)
\* Every method maps the state s to [s |-> the state after, r |-> the call's record].
\* ------------------------------------------------------------------------

EmptyMap == [x \in {} |-> Nil]
Put(f, k, v) == [x \in (DOMAIN f) \cup {k} |-> IF x = k THEN v ELSE f[x]]
Restrict(f, D) == [x \in D |-> f[x]]

\* what the opaque collaborators answer during one call:
\*   validate : the validatePayload capability ("ok" | "error")
\*   recover  : rawdb.ReadBodyWithTransactions on the batch ("ok" | "err" | "nil")
\*   failAt   : which store read of the side-fork assembly fails (0: none)
Outcome(v, rc, k) == [validate |-> v, recover |-> rc, failAt |-> k]
Outcomes ==
    {Outcome("ok", "ok", 0), Outcome("error", "ok", 0),
     Outcome("ok", "err", 0), Outcome("ok", "nil", 0)}
    \cup {Outcome("ok", "ok", k) : k \in 1..MaxFailAt}

\* clean() pruning at a distance of maxForkDepth already
clean_offByOne(s) ==
    [s EXCEPT !.sideForksBlock =
        Restrict(@, {h \in DOMAIN @ :
                        ~(AbsoluteDifference(s.currentHeight, Number(h)) >= maxForkDepth)})]

\* func (fv *ForkValidator) clean()
clean(s) ==
    [s EXCEPT !.sideForksBlock =
        Restrict(@, {h \in DOMAIN @ :
                        ~(AbsoluteDifference(s.currentHeight, Number(h)) > maxForkDepth)})]

\* clear() that forgets to reset the head hash
clear_keepsHeadHash(s) ==
    LET t == RollbackExtendingFork(s)
    IN  [t EXCEPT !.extendingFork = Nil]

\* func (fv *ForkValidator) clear()
clear(s) ==
    LET t == RollbackExtendingFork(s)
    IN  [t EXCEPT !.extendingForkHeadHash = ZeroHash, !.extendingFork = Nil]

\* an ExtendingForkHeadHash that always answers the zero hash
ExtendingForkHeadHash_zero(s) == ZeroHash

\* func (fv *ForkValidator) ExtendingForkHeadHash()
ExtendingForkHeadHash(s) == s.extendingForkHeadHash

\* NotifyCurrentHeight that only records the height
NotifyCurrentHeight_keepsFork(s, h) ==
    [s |-> [s EXCEPT !.currentHeight = h],
     r |-> [NoCall EXCEPT !.op = "NotifyCurrentHeight", !.height = h,
                          !.header = s.extendingForkHeadHash]]

\* func (fv *ForkValidator) NotifyCurrentHeight(currentHeight)
NotifyCurrentHeight(s, h) ==
    LET s1 == [s EXCEPT !.currentHeight = h]
        s2 == RollbackExtendingFork(s1)
    IN  [s |-> [s2 EXCEPT !.extendingFork = Nil, !.extendingForkHeadHash = ZeroHash],
         r |-> [NoCall EXCEPT !.op = "NotifyCurrentHeight", !.height = h,
                              !.header = s.extendingForkHeadHash]]

\* (*MemoryMutation).Flush(tx): what validate staged for the blocks it ran
\* on the batch goes into the store: header, body and state of each block,
\* the canonical hash at its height, the head header and the progress of the
\* stages validate ran
Flush(d, writes) ==
    IF writes = {} THEN d
    ELSE LET top == CHOOSE h \in writes : \A g \in writes : Number(g) <= Number(h)
             at(n) == {h \in writes : Number(h) = n}
         IN  [d EXCEPT !.headers = @ \cup writes,
                       !.bodies = @ \cup writes,
                       !.state = @ \cup writes,
                       !.canonical = [n \in Numbers |->
                                        IF at(n) = {} THEN @[n] ELSE CHOOSE h \in at(n) : TRUE],
                       !.head = top,
                       !.progress.Headers = Number(top),
                       !.progress.Execution = Number(top)]

\* func (fv *ForkValidator) FlushExtendingFork(tx); flushOk: Flush(tx) returned no error
FlushExtendingFork(s, txn, flushOk) ==
    LET r0 == [NoCall EXCEPT !.op = "FlushExtendingFork",
                             !.header = s.extendingForkHeadHash]
    IN  IF s.extendingFork = Nil
        THEN \* fv.extendingFork.Flush on a nil overlay: the call panics
             [s |-> s, r |-> [r0 EXCEPT !.path = "panic", !.criticalError = TRUE]]
        ELSE IF ~flushOk
        THEN [s |-> s, r |-> [r0 EXCEPT !.criticalError = TRUE]]
        ELSE LET s1 == [s EXCEPT !.db = Flush(@, s.extendingFork.writes)]
                 s2 == RollbackExtendingFork(s1)
             IN  [s |-> [s2 EXCEPT !.extendingForkHeadHash = ZeroHash, !.extendingFork = Nil],
                  r |-> r0]

\* validateAndStorePayload that drops the extending fork only when it validated on it
validateAndStorePayload_keepsFork(s, onExtending, header, body, unwindPoint, headersChain, bodiesChain, out, r) ==
    LET r1 == [r EXCEPT !.validate = out.validate, !.unwindPoint = unwindPoint,
                        !.headersChain = headersChain, !.bodiesChain = bodiesChain]
        s1 == IF onExtending /\ out.validate = "ok"
              THEN [s EXCEPT !.extendingFork.writes = @ \cup {header}]
              ELSE s
    IN  IF out.validate = "error"
        THEN [s |-> IF onExtending
                    THEN [RollbackExtendingFork(s1) EXCEPT !.extendingFork = Nil,
                                                          !.extendingForkHeadHash = ZeroHash]
                    ELSE s1,
              r |-> [r1 EXCEPT !.latestValidHash = ParentHash(header), !.status = "INVALID",
                               !.validationError = TRUE]]
        ELSE IF body = Nil
        THEN IF out.recover # "ok"
             THEN [s |-> s1, r |-> [r1 EXCEPT !.latestValidHash = header, !.criticalError = TRUE]]
             ELSE [s |-> [s1 EXCEPT !.sideForksBlock = Put(@, header, RecoveredBody(header))],
                   r |-> [r1 EXCEPT !.latestValidHash = header, !.status = "VALID"]]
        ELSE [s |-> [s1 EXCEPT !.sideForksBlock = Put(@, header, body)],
              r |-> [r1 EXCEPT !.latestValidHash = header, !.status = "VALID"]]

\* func (fv *ForkValidator) validateAndStorePayload(tx, header, body, unwindPoint, headersChain, bodiesChain)
\* onExtending: tx is fv.extendingFork (otherwise a batch of the call's own)
validateAndStorePayload(s, onExtending, header, body, unwindPoint, headersChain, bodiesChain, out, r) ==
    LET r1 == [r EXCEPT !.validate = out.validate, !.unwindPoint = unwindPoint,
                        !.headersChain = headersChain, !.bodiesChain = bodiesChain]
        \* a successful validate leaves the block's writes in the batch it ran on
        s1 == IF onExtending /\ out.validate = "ok"
              THEN [s EXCEPT !.extendingFork.writes = @ \cup {header}]
              ELSE s
    IN  IF out.validate = "error"
        THEN [s |-> [RollbackExtendingFork(s1) EXCEPT !.extendingFork = Nil,
                                                      !.extendingForkHeadHash = ZeroHash],
              r |-> [r1 EXCEPT !.latestValidHash = ParentHash(header), !.status = "INVALID",
                               !.validationError = TRUE]]
        ELSE IF body = Nil
        THEN IF out.recover # "ok"
             THEN [s |-> s1, r |-> [r1 EXCEPT !.latestValidHash = header, !.criticalError = TRUE]]
             ELSE [s |-> [s1 EXCEPT !.sideForksBlock = Put(@, header, RecoveredBody(header))],
                   r |-> [r1 EXCEPT !.latestValidHash = header, !.status = "VALID"]]
        ELSE [s |-> [s1 EXCEPT !.sideForksBlock = Put(@, header, body)],
              r |-> [r1 EXCEPT !.latestValidHash = header, !.status = "VALID"]]

\* the loop "for !foundCanonical" of ValidatePayload, entered with foundCanonical = false;
\* n store reads were made before this iteration
RECURSIVE assemble(_, _, _, _, _, _, _, _)
assemble(sf, d, currentHash, headersChain, bodiesChain, unwindPoint, n, failAt) ==
    IF currentHash \notin DOMAIN sf
    THEN [kind |-> "accepted", why |-> "missing", headersChain |-> headersChain,
          bodiesChain |-> bodiesChain, unwindPoint |-> unwindPoint]
    ELSE LET hc == <<currentHash>> \o headersChain
             bc == <<sf[currentHash]>> \o bodiesChain
         IN  IF failAt = n + 1
             THEN [kind |-> "critical", why |-> "has", headersChain |-> hc,
                   bodiesChain |-> bc, unwindPoint |-> unwindPoint]
             ELSE IF currentHash \in d.bodies
             THEN [kind |-> "accepted", why |-> "body", headersChain |-> hc,
                   bodiesChain |-> bc, unwindPoint |-> unwindPoint]
             ELSE IF failAt = n + 2
             THEN [kind |-> "critical", why |-> "canonical", headersChain |-> hc,
                   bodiesChain |-> bc, unwindPoint |-> unwindPoint]
             ELSE IF IsCanonicalHash(d, ParentHash(currentHash))
             THEN [kind |-> "found", why |-> "canonical", headersChain |-> hc,
                   bodiesChain |-> bc, unwindPoint |-> Number(currentHash) - 1]
             ELSE assemble(sf, d, ParentHash(currentHash), hc, bc,
                           Number(currentHash) - 1, n + 2, failAt)

\* a backward assembly that appends each cached segment instead of prepending it
sideFork_appended(s, header, out) ==
    IF out.failAt = 1
    THEN [kind |-> "critical", why |-> "canonical", headersChain |-> <<>>,
          bodiesChain |-> <<>>, unwindPoint |-> 0]
    ELSE IF IsCanonicalHash(s.db, ParentHash(header))
    THEN [kind |-> "found", why |-> "canonical", headersChain |-> <<>>,
          bodiesChain |-> <<>>, unwindPoint |-> Number(header) - 1]
    ELSE LET w == assemble(s.sideForksBlock, s.db, ParentHash(header), <<>>, <<>>,
                           Number(header) - 1, 1, out.failAt)
             n == Len(w.headersChain)
         IN  [w EXCEPT !.headersChain = [i \in 1..n |-> w.headersChain[n + 1 - i]],
                       !.bodiesChain = [i \in 1..n |-> w.bodiesChain[n + 1 - i]]]

\* a backward assembly whose unwind point is the canonical ancestor's number + 1
sideFork_numberPlusOne(s, header, out) ==
    IF out.failAt = 1
    THEN [kind |-> "critical", why |-> "canonical", headersChain |-> <<>>,
          bodiesChain |-> <<>>, unwindPoint |-> 0]
    ELSE IF IsCanonicalHash(s.db, ParentHash(header))
    THEN [kind |-> "found", why |-> "canonical", headersChain |-> <<>>,
          bodiesChain |-> <<>>, unwindPoint |-> Number(header)]
    ELSE [assemble(s.sideForksBlock, s.db, ParentHash(header), <<>>, <<>>,
                   Number(header) - 1, 1, out.failAt) EXCEPT !.unwindPoint = @ + 1]

\* a backward assembly that always finds a canonical parent
sideFork_found(s, header, out) ==
    [kind |-> "found", why |-> "canonical", headersChain |-> <<>>,
     bodiesChain |-> <<>>, unwindPoint |-> Number(header) - 1]

\* ValidatePayload from "Let's assemble the side fork backwards" on
sideFork(s, header, out) ==
    IF out.failAt = 1
    THEN [kind |-> "critical", why |-> "canonical", headersChain |-> <<>>,
          bodiesChain |-> <<>>, unwindPoint |-> 0]
    ELSE IF IsCanonicalHash(s.db, ParentHash(header))
    THEN [kind |-> "found", why |-> "canonical", headersChain |-> <<>>,
          bodiesChain |-> <<>>, unwindPoint |-> Number(header) - 1]
    ELSE assemble(s.sideForksBlock, s.db, ParentHash(header), <<>>, <<>>,
                  Number(header) - 1, 1, out.failAt)

\* a ValidatePayload that answers ACCEPTED for a header it has cached
validatePayloadBody_cachedAccepted(s, txn, header, body, extendCanonical, out, r0) ==
    [s |-> s, r |-> [r0 EXCEPT !.path = "cached", !.status = "ACCEPTED"]]

\* a ValidatePayload that replays a side fork on the extending fork when there is one
validatePayloadBody_onExtending(s, txn, header, body, extendCanonical, out, r0) ==
    IF header \in DOMAIN s.sideForksBlock
    THEN [s |-> s, r |-> [r0 EXCEPT !.path = "cached", !.status = "VALID",
                                    !.latestValidHash = header]]
    ELSE IF extendCanonical
    THEN LET s1 == IF s.extendingFork = Nil
                   THEN [s EXCEPT !.extendingFork = NewMemoryBatch(txn), !.memBatches = @ + 1]
                   ELSE [s EXCEPT !.extendingFork = UpdateTxn(@, txn)]
             s2 == [s1 EXCEPT !.extendingForkHeadHash = header]
         IN  validateAndStorePayload(s2, TRUE, header, body, 0, <<>>, <<>>, out,
                                     [r0 EXCEPT !.path = "extend", !.txn = txn,
                                                !.newBatch = (s.extendingFork = Nil)])
    ELSE IF AbsoluteDifference(s.currentHeight, Number(header)) > maxForkDepth
    THEN [s |-> s, r |-> [r0 EXCEPT !.path = "outOfRange", !.status = "ACCEPTED"]]
    ELSE LET w == sideFork(s, header, out)
         IN  CASE w.kind = "critical" ->
                    [s |-> s, r |-> [r0 EXCEPT !.path = "critical", !.criticalError = TRUE]]
               [] w.kind = "accepted" ->
                    [s |-> s, r |-> [r0 EXCEPT !.path = w.why, !.status = "ACCEPTED"]]
               [] OTHER ->
                    LET unwindPoint == IF w.unwindPoint = s.currentHeight THEN 0
                                       ELSE w.unwindPoint
                    IN  validateAndStorePayload(s, s.extendingFork # Nil, header, body,
                                                unwindPoint, w.headersChain, w.bodiesChain, out,
                                                [r0 EXCEPT !.path = "side",
                                                           !.walkUnwindPoint = w.unwindPoint])

\* func (fv *ForkValidator) ValidatePayload(tx, header, body, extendCanonical), up to its
\* deferred clean()
validatePayloadBody(s, txn, header, body, extendCanonical, out, r0) ==
    IF header \in DOMAIN s.sideForksBlock
    THEN [s |-> s, r |-> [r0 EXCEPT !.path = "cached", !.status = "VALID",
                                    !.latestValidHash = header]]
    ELSE IF extendCanonical
    THEN LET s1 == IF s.extendingFork = Nil
                   THEN [s EXCEPT !.extendingFork = NewMemoryBatch(txn), !.memBatches = @ + 1]
                   ELSE [s EXCEPT !.extendingFork = UpdateTxn(@, txn)]
             s2 == [s1 EXCEPT !.extendingForkHeadHash = header]
         IN  validateAndStorePayload(s2, TRUE, header, body, 0, <<>>, <<>>, out,
                                     [r0 EXCEPT !.path = "extend", !.txn = txn,
                                                !.newBatch = (s.extendingFork = Nil)])
    ELSE IF AbsoluteDifference(s.currentHeight, Number(header)) > maxForkDepth
    THEN [s |-> s, r |-> [r0 EXCEPT !.path = "outOfRange", !.status = "ACCEPTED"]]
    ELSE LET w == sideFork(s, header, out)
         IN  CASE w.kind = "critical" ->
                    [s |-> s, r |-> [r0 EXCEPT !.path = "critical", !.criticalError = TRUE]]
               [] w.kind = "accepted" ->
                    [s |-> s, r |-> [r0 EXCEPT !.path = w.why, !.status = "ACCEPTED"]]
               [] OTHER ->
                    LET unwindPoint == IF w.unwindPoint = s.currentHeight THEN 0
                                       ELSE w.unwindPoint
                        \* batch := memdb.NewMemoryBatch(tx); defer batch.Rollback()
                        s1 == [s EXCEPT !.memBatches = @ + 1]
                        res == validateAndStorePayload(s1, FALSE, header, body, unwindPoint,
                                                       w.headersChain, w.bodiesChain, out,
                                                       [r0 EXCEPT !.path = "side",
                                                                  !.walkUnwindPoint = w.unwindPoint])
                    IN  [s |-> [res.s EXCEPT !.memBatches = @ - 1], r |-> res.r]

ValidatePayload(s, txn, header, body, extendCanonical, out) ==
    LET r0 == [NoCall EXCEPT !.op = "ValidatePayload", !.header = header,
                             !.withBody = (body # Nil), !.extendCanonical = extendCanonical]
    IN  IF ~s.validatePayload
        THEN [s |-> s, r |-> [r0 EXCEPT !.path = "mock", !.status = "ACCEPTED"]]
        ELSE LET res == validatePayloadBody(s, txn, header, body, extendCanonical, out, r0)
             IN  [s |-> clean(res.s), r |-> res.r]

\* TryAddingPoWBlock between Lock and Unlock
addPoWBlock(s, block) ==
    [s EXCEPT !.sideForksBlock = Put(@, block, RawBody(block))]

\* func (fv *ForkValidator) TryAddingPoWBlock(block): the insertion, then the deferred clean()
TryAddingPoWBlock(s, block) ==
    [s |-> clean([s EXCEPT !.sideForksBlock = Put(@, block, RawBody(block))]),
     r |-> [NoCall EXCEPT !.op = "TryAddingPoWBlock", !.header = block]]

\* what notifyTxPool's reads through the extending fork give
ReadOutcomes == {"ok", "canonicalErr", "noHeader", "txsErr"}

\* notifyTxPool announcing a forward change
notifyTxPool_noUnwind(s, to, rd) ==
    IF rd # "ok" THEN <<>>
    ELSE <<[to |-> to, unwind |-> FALSE, live |-> s.extendingFork.live]>>

\* func (fv *ForkValidator) notifyTxPool(to, accumulator, c): the StartChange calls made
notifyTxPool(s, to, rd) ==
    IF rd # "ok" THEN <<>>
    ELSE <<[to |-> to, unwind |-> TRUE, live |-> s.extendingFork.live]>>

\* func (fv *ForkValidator) ClearWithUnwind(tx, accumulator, c); accumulator: it is not nil
ClearWithUnwind(s, txn, accumulator, rd) ==
    LET ok == s.extendingForkHeadHash \in DOMAIN s.sideForksBlock
        r0 == [NoCall EXCEPT !.op = "ClearWithUnwind", !.accumulator = accumulator,
                             !.header = s.extendingForkHeadHash]
    IN  IF s.extendingFork # Nil /\ accumulator /\ s.extendingForkHeadHash # ZeroHash /\ ok
        THEN LET s1 == [s EXCEPT !.extendingFork = UpdateTxn(@, txn)]
                 sent == notifyTxPool(s1, Number(s.extendingForkHeadHash) - 1, rd)
                 s2 == RollbackExtendingFork(s1)
             IN  [s |-> clear(s2), r |-> [r0 EXCEPT !.notify = sent, !.read = rd, !.txn = txn]]
        ELSE [s |-> clear(s), r |-> r0]

\* ------------------------------------------------------------------------
\* Spec: the ForkValidator's entry points, called in any order
\* ------------------------------------------------------------------------

Procs == {"g1", "g2"}
NoProc == "none"
Idle == [at |-> "idle"]

\* no goroutine is inside a method
Quiet ==
    /\ lock = NoProc
    /\ pc = [p \in Procs |-> Idle]
    /\ crashed = FALSE

\* a call made while no other call is in progress: the method runs from Lock to return
Returns(res) ==
    /\ Install(res.s)
    /\ call' = res.r
    /\ UNCHANGED <<lockVars, stageVars>>

\* NewForkValidator(currentHeight, validatePayload) / NewForkValidatorMock(currentHeight)
\* over a store whose canonical chain is G, A and that also holds the given
\* headers of other forks
InitFVWith(known) ==
    /\ sideForksBlock = EmptyMap
    /\ extendingFork = Nil
    /\ extendingForkHeadHash = ZeroHash
    /\ currentHeight = Number(A)
    /\ validatePayload \in BOOLEAN
    /\ memBatches = 0
    /\ \E bodies \in {{G, A}, {G, A, X}} :
          db = [headers |-> {G, A} \cup known,
                canonical |-> [n \in Numbers |-> IF n = Number(G) THEN G
                                                 ELSE IF n = Number(A) THEN A ELSE ZeroHash],
                bodies |-> bodies,
                state |-> {G, A},
                head |-> A,
                headBlock |-> A,
                forkchoice |-> [head |-> ZeroHash, safe |-> ZeroHash, finalized |-> ZeroHash],
                progress |-> [Headers |-> Number(A), Execution |-> Number(A),
                              Finish |-> Number(A)]]
    /\ call = NoCall

\* the store holds the canonical chain only
InitFV == InitFVWith({})

\* no request: nothing pending, no download, no unsettled fork choice
NewHd ==
    [requests |-> <<>>, nextId |-> 1, interrupt |-> "None",
     pendingPayloadHash |-> ZeroHash, pendingPayloadStatus |-> Nil,
     unsettledForkChoice |-> Nil,
     posStatus |-> "Idle", headersCollector |-> Nil,
     requestId |-> 0, posDownloaderTip |-> ZeroHash, headerToDownload |-> ZeroHash,
     heightToDownload |-> 0,
     badHeaders |-> EmptyMap, badPoWHeaders |-> {}, topSeenHeight |-> 0,
     quitPoWMining |-> [closed |-> FALSE, closes |-> 0], firstPoSHeight |-> Nil,
     shutdown |-> FALSE]

NoStep == [op |-> "none", id |-> 0, head |-> ZeroHash, block |-> ZeroHash,
           path |-> "none", reply |-> Nil, out |-> <<>>, err |-> FALSE, calls |-> <<>>,
           fed |-> <<>>, rejected |-> <<>>, replays |-> <<>>]

\* the stage loop has not started
StageQuiet ==
    /\ cfg = [memoryOverlay |-> FALSE, accumulator |-> FALSE, useExternalTx |-> TRUE,
              terminalTotalDifficultyPassed |-> TRUE,
              test |-> FALSE]
    /\ hd = NewHd
    /\ PayloadStatusCh = Nil
    /\ loop = [phase |-> "headers", initialCycle |-> TRUE, unwindPoint |-> Nil,
               durable |-> db, faults |-> 0, headCh |-> Nil]
    /\ step = NoStep
    /\ order = [dequeued |-> <<>>, replied |-> <<>>, serving |-> 0, pendingFor |-> 0,
                heads |-> <<>>, blocks |-> <<>>]

Init ==
    /\ InitFV
    /\ Quiet
    /\ StageQuiet

DoValidatePayload ==
    \E txn \in 1..MaxTxn, header \in Payloads, withBody \in BOOLEAN,
       extendCanonical \in BOOLEAN, out \in Outcomes :
        /\ extendCanonical => header \in ExtendPayloads
        \* an answer nobody asks for is not enumerated twice
        /\ withBody => out.recover = "ok"
        /\ extendCanonical => out.failAt = 0
        /\ \E res \in {ValidatePayload(Sys, txn, header,
                                        IF withBody THEN RawBody(header) ELSE Nil,
                                        extendCanonical, out)} :
              Returns(res)

DoFlushExtendingFork ==
    /\ extendingFork # Nil
    /\ \E txn \in 1..MaxTxn, flushOk \in BOOLEAN :
        \E res \in {FlushExtendingFork(Sys, txn, flushOk)} :
            Returns(res)

DoClearWithUnwind ==
    \E txn \in 1..MaxTxn, accumulator \in BOOLEAN, rd \in ReadOutcomes :
        \E res \in {ClearWithUnwind(Sys, txn, accumulator, rd)} :
            Returns(res)

DoNotifyCurrentHeight ==
    \E h \in Heights :
        \E res \in {NotifyCurrentHeight(Sys, h)} :
            Returns(res)

DoTryAddingPoWBlock ==
    \E block \in PoWInputs :
        \E res \in {TryAddingPoWBlock(Sys, block)} :
            Returns(res)

Next ==
    \/ DoValidatePayload
    \/ DoFlushExtendingFork
    \/ DoClearWithUnwind
    \/ DoNotifyCurrentHeight
    \/ DoTryAddingPoWBlock

Spec == Init /\ [][Next]_vars


\* ------------------------------------------------------------------------
\* Properties of the ForkValidator (checked under Spec)
\* ------------------------------------------------------------------------

\* C1: between calls there is at most one extending overlay (every memory batch
\* the validator created and did not roll back is fv.extendingFork), and the
\* overlay exists if and only if extendingForkHeadHash is not the zero hash.
C1_OneOverlayIffHeadHash ==
    /\ (extendingFork # Nil) <=> (extendingForkHeadHash # ZeroHash)
    /\ memBatches = IF extendingFork = Nil THEN 0 ELSE 1
    /\ extendingFork # Nil => extendingFork.live

\* C1 witness: an overlay that staged B and then C on top of it
C1_StackedOverlay ==
    /\ extendingFork # Nil
    /\ extendingForkHeadHash = C
    /\ extendingFork.writes = {B, C}

\* C2 (as claimed): every segment of the side-fork cache is at most maxForkDepth
\* blocks away from currentHeight, in every state between calls.
C2_CacheWithinForkDepth ==
    \A h \in DOMAIN sideForksBlock :
        AbsoluteDifference(currentHeight, Number(h)) <= maxForkDepth

\* the body ValidatePayload caches for the header of the last call
CachedBodyOfCall == IF call.withBody THEN RawBody(call.header) ELSE RecoveredBody(call.header)

\* C4 (as claimed): whenever validate succeeded inside ValidatePayload, the call
\* returned VALID with latestValidHash = header.hash, the (header, body) pair is
\* in the cache when the call returns, and on the canonical-extension path the
\* overlay is retained with extendingForkHeadHash = header.hash.
C4_ValidateOkAsClaimed ==
    (call.op = "ValidatePayload" /\ call.validate = "ok") =>
        /\ call.status = "VALID" /\ ~call.criticalError
        /\ call.latestValidHash = call.header
        /\ call.header \in DOMAIN sideForksBlock
        /\ sideForksBlock[call.header] = CachedBodyOfCall
        /\ call.extendCanonical =>
              extendingFork # Nil /\ extendingForkHeadHash = call.header

\* C4 (amended): whenever validate succeeded inside ValidatePayload, then unless
\* the call returns a critical error (a nil body could not be read back) it
\* returns VALID with latestValidHash = header.hash and the (header, body) pair
\* is in the cache when the call returns provided the header is at most
\* maxForkDepth blocks from currentHeight (the deferred clean() removes it
\* otherwise); on the canonical-extension path the overlay is retained, holds
\* the block's writes, and extendingForkHeadHash = header.hash.
C4_ValidateOk ==
    (call.op = "ValidatePayload" /\ call.validate = "ok") =>
        /\ ~call.criticalError =>
              /\ call.status = "VALID"
              /\ call.latestValidHash = call.header
              /\ call.header \in DOMAIN sideForksBlock <=>
                    AbsoluteDifference(currentHeight, Number(call.header)) <= maxForkDepth
              /\ call.header \in DOMAIN sideForksBlock =>
                    sideForksBlock[call.header] = CachedBodyOfCall
        /\ call.criticalError => ~call.withBody /\ call.header \notin DOMAIN sideForksBlock
        /\ call.extendCanonical =>
              /\ extendingFork # Nil /\ extendingFork.live
              /\ extendingForkHeadHash = call.header
              /\ call.header \in extendingFork.writes

\* C4 witness: C was validated on the overlay, exactly maxForkDepth below
\* currentHeight, and is cached with the body given
C4_ValidatedAtDepth ==
    /\ call.op = "ValidatePayload" /\ call.validate = "ok" /\ call.extendCanonical
    /\ call.header = C /\ currentHeight = FarHeight
    /\ C \in DOMAIN sideForksBlock

\* C5: whenever validate returned an error inside ValidatePayload, the call
\* returned INVALID with latestValidHash = header.parentHash, the header is not
\* in the side-fork cache, and after the call there is no extending overlay
\* and extendingForkHeadHash is zero.
C5_ValidateError ==
    (call.op = "ValidatePayload" /\ call.validate = "error") =>
        /\ call.status = "INVALID" /\ call.validationError /\ ~call.criticalError
        /\ call.latestValidHash = ParentHash(call.header)
        /\ call.header \notin DOMAIN sideForksBlock
        /\ extendingFork = Nil
        /\ extendingForkHeadHash = ZeroHash
        /\ memBatches = 0

\* C5 witness: validate failed for a side-fork header assembled over a cached ancestor
C5_SideForkInvalid ==
    /\ call.op = "ValidatePayload" /\ call.validate = "error"
    /\ call.path = "side" /\ call.header = Y

\* C6 (as claimed): a ValidatePayload call that returns a criticalError leaves
\* the side-fork cache, the extending overlay and extendingForkHeadHash as they
\* were before the call.
C6_CriticalErrorKeepsState ==
    [][(call'.op = "ValidatePayload" /\ call'.criticalError) =>
          /\ sideForksBlock' = sideForksBlock
          /\ extendingFork' = extendingFork
          /\ extendingForkHeadHash' = extendingForkHeadHash]_vars

\* the one notification ClearWithUnwind sends for the staged head
UnwindNotification(head) == <<[to |-> Number(head) - 1, unwind |-> TRUE, live |-> TRUE]>>

LockCall(op, header, height) == [op |-> op, header |-> header, height |-> height]

LockCalls ==
    {LockCall("ValidatePayload", h, 0) : h \in {B, X}}
    \cup {LockCall("NotifyCurrentHeight", ZeroHash, h) : h \in Heights}
    \cup {LockCall("TryAddingPoWBlock", h, 0) : h \in PoWInputs}
    \cup {LockCall(op, ZeroHash, 0) :
            op \in {"ClearWithUnwind", "ExtendingForkHeadHash", "FlushExtendingFork"}}

\* what the method does to the validator between Lock and Unlock
locked(s, c) ==
    CASE c.op = "ValidatePayload" ->
            ValidatePayload(s, MaxTxn, c.header, RawBody(c.header),
                            c.header \in ExtendPayloads, Outcome("ok", "ok", 0)).s
      [] c.op = "NotifyCurrentHeight" -> NotifyCurrentHeight(s, c.height).s
      [] c.op = "TryAddingPoWBlock" -> addPoWBlock(s, c.header)
      [] c.op = "ClearWithUnwind" -> ClearWithUnwind(s, MaxTxn, TRUE, "ok").s
      [] c.op = "FlushExtendingFork" -> FlushExtendingFork(s, MaxTxn, TRUE).s
      [] OTHER -> s

\* the method reads or writes fv.sideForksBlock between Lock and Unlock
touchesCache(s, c) ==
    \/ c.op \in {"TryAddingPoWBlock", "ClearWithUnwind"}
    \/ c.op = "ValidatePayload" /\ s.validatePayload

Cleaning == {p \in Procs : pc[p].at = "cleaning"}

\* the goroutine is reading or writing the cache, the overlay or the head hash
Accessing(p) == pc[p].at \in {"locked", "cleaning"}

\* fv.lock.Lock()
Enter(p) ==
    /\ ~crashed /\ pc[p] = Idle /\ lock = NoProc
    /\ \E c \in LockCalls :
          /\ c.op = "FlushExtendingFork" => extendingFork # Nil
          /\ pc' = [pc EXCEPT ![p] = [at |-> "locked", c |-> c]]
    /\ lock' = p
    /\ UNCHANGED <<fvVars, call, crashed, stageVars>>

\* the body of the method, then the deferred fv.lock.Unlock().  A clean()
\* another goroutine is in the middle of sees the writes: the runtime may
\* detect the concurrent map access and stop the program.
Run(p) ==
    /\ ~crashed /\ pc[p].at = "locked"
    /\ LET c == pc[p].c
           racing == IF touchesCache(Sys, c) THEN Cleaning ELSE {}
           after == IF c.op = "TryAddingPoWBlock" THEN [at |-> "unlocked"] ELSE Idle
       IN  \/ /\ racing # {}
              /\ crashed' = TRUE
              /\ UNCHANGED <<fvVars, call, lock, pc, stageVars>>
           \/ /\ \E t \in {locked(Sys, c)} :
                    /\ Install(t)
                    /\ pc' = [q \in Procs |->
                                IF q = p THEN after
                                ELSE IF q \in Cleaning
                                THEN [pc[q] EXCEPT !.raced = @ \/ (q \in racing),
                                                   !.seen = @ \cup {t.currentHeight}]
                                ELSE pc[q]]
              /\ lock' = NoProc
              /\ UNCHANGED <<call, crashed, stageVars>>

\* the deferred fv.clean() of TryAddingPoWBlock starts, after the Unlock
CleanBegin(p) ==
    /\ ~crashed /\ pc[p].at = "unlocked"
    /\ pc' = [pc EXCEPT ![p] = [at |-> "cleaning", raced |-> FALSE, seen |-> {currentHeight}]]
    /\ UNCHANGED <<fvVars, call, lock, crashed, stageVars>>

\* entries out of range of the height h
Stale(sf, h) == {x \in DOMAIN sf : AbsoluteDifference(h, Number(x)) > maxForkDepth}

\* the deferred fv.clean() of TryAddingPoWBlock returns.  Undisturbed it has
\* pruned the cache; if the cache or the height was written meanwhile it has
\* deleted any of the entries out of range of a height it saw, or the runtime
\* stops the program.
CleanEnd(p) ==
    /\ ~crashed /\ pc[p].at = "cleaning"
    /\ LET me == pc[p]
           others == Cleaning \ {p}
           deletes == Stale(sideForksBlock, currentHeight) # {}
           raced == me.raced \/ (others # {} /\ deletes)
           mayGo == UNION {Stale(sideForksBlock, h) : h \in me.seen}
       IN  \/ /\ raced
              /\ crashed' = TRUE
              /\ UNCHANGED <<fvVars, call, lock, pc, stageVars>>
           \/ /\ \E gone \in SUBSET mayGo :
                    /\ ~raced /\ me.seen = {currentHeight} => gone = mayGo
                    /\ sideForksBlock' = Restrict(sideForksBlock, DOMAIN sideForksBlock \ gone)
                    /\ pc' = [q \in Procs |->
                                IF q = p THEN Idle
                                ELSE IF q \in others
                                THEN [pc[q] EXCEPT !.raced = @ \/ (gone # {})]
                                ELSE pc[q]]
              /\ UNCHANGED <<extendingFork, extendingForkHeadHash, currentHeight,
                             validatePayload, memBatches, db, call, lock, crashed,
                             stageVars>>

NextLock ==
    \E p \in Procs :
        \/ Enter(p)
        \/ Run(p)
        \/ CleanBegin(p)
        \/ CleanEnd(p)

SpecLock == Init /\ [][NextLock]_vars

\* C3 (as claimed): every read or mutation of the side-fork cache, the overlay
\* or the head hash by any entry point, the pruning TryAddingPoWBlock does
\* included, happens while the goroutine holds fv.lock, so no two goroutines
\* are ever accessing them at the same time.
C3_AccessUnderLock ==
    /\ \A p \in Procs : Accessing(p) => lock = p
    /\ \A p, q \in Procs : (Accessing(p) /\ Accessing(q)) => p = q


\* ------------------------------------------------------------------------
\* The headers stage in proof-of-stake mode (stage_finish.go)
\* ------------------------------------------------------------------------

\* const ShortPoSReorgThresholdBlocks = 10
ShortPoSReorgThresholdBlocks == 10

\* the transaction the stage works in
StageTxn == MaxTxn

\* engineapi.PayloadStatus; for: the request the reply answers
PayloadStatus(status, latestValidHash) ==
    [status |-> status, latestValidHash |-> latestValidHash, validationError |-> FALSE,
     criticalError |-> "none", for |-> 0]
Syncing == PayloadStatus("SYNCING", ZeroHash)
CriticalError(e) == [PayloadStatus(ZeroStatus, ZeroHash) EXCEPT !.criticalError = e]
InvalidForkchoiceStateErr == CriticalError("InvalidForkchoiceState")

\* the fallible operations of a stage invocation: at most one of them fails
FailPoints == {"none", "HeaderByHash", "IsCanonicalHash", "Flush", "forkingPoint",
               "FeedHeaderPoS", "fixCanonicalChain", "WriteHeadHeaderHash", "Update",
               "Commit", "Load", "Transitioned"}

\* the state one invocation of the stage works on, and what the environment
\* answers during it:
\*   fail   : the operation that fails (FailPoints)
\*   fvOut  : what validate and the body read-back answer inside ValidatePayload
\*   badSeal: the header cfg.hd.VerifyHeader rejects (ZeroHash: none)
\*   inTime : the download finishes while handleNewPayload polls for it
\*   rd     : what notifyTxPool's reads give
Invocation(fail, fvOut, badSeal, inTime, rd) ==
    [fv |-> Sys, hd |-> hd, unwindPoint |-> loop.unwindPoint,
     \* headerdownload.NewHeaderInserter(s.LogPrefix(), nil, s.BlockNumber, cfg.blockReader)
     hi |-> [highest |-> db.progress.Headers, highestHash |-> ZeroHash],
     id |-> order.serving, head |-> ZeroHash, block |-> ZeroHash,
     pendingFor |-> order.pendingFor,
     dequeued |-> FALSE,
     out |-> <<>>, calls |-> <<>>, prefetch |-> {}, fed |-> <<>>, rejected |-> <<>>,
     replays |-> <<>>,
     reply |-> Nil, success |-> FALSE, err |-> FALSE, path |-> "none",
     fail |-> fail, fvOut |-> fvOut, badSeal |-> badSeal, inTime |-> inTime, rd |-> rd]

\* a call of a ForkValidator method by the stage
callFV(t, res) == [t EXCEPT !.fv = res.s, !.calls = Append(@, res.r)]

\* cfg.hd.PayloadStatusCh <- status
push(t, status, for) == [t EXCEPT !.out = Append(@, [status EXCEPT !.for = for])]

\* cfg.hd.SetPendingPayloadHash(hash)
SetPendingPayloadHash(t, hash) ==
    [t EXCEPT !.hd.pendingPayloadHash = hash, !.pendingFor = t.id]

\* cfg.hd.SetPendingPayloadStatus(status)
SetPendingPayloadStatus(t, status) ==
    [t EXCEPT !.hd.pendingPayloadStatus = [status EXCEPT !.for = t.id], !.pendingFor = t.id]

\* cfg.hd.ClearPendingPayloadHash()
ClearPendingPayloadHash(t) ==
    [t EXCEPT !.hd.pendingPayloadHash = ZeroHash,
              !.pendingFor = IF t.hd.pendingPayloadStatus = Nil THEN 0 ELSE @]

\* HeadersPOS: cfg.hd.ClearPendingPayloadHash(); cfg.hd.SetPendingPayloadStatus(nil)
clearPending_skip(t) == t

clearPending(t) ==
    [t EXCEPT !.hd.pendingPayloadHash = ZeroHash, !.hd.pendingPayloadStatus = Nil,
              !.pendingFor = 0]

\* a Remove that leaves the request in the list
Remove_keeps(t, requestId) == t

\* cfg.hd.BeaconRequestList.Remove(requestId)
Remove(t, requestId) ==
    [t EXCEPT !.hd.requests = SelectSeq(@, LAMBDA q : q.id # requestId)]

\* cfg.hd.BeaconRequestList.SetStatus(requestId, status): only a request in the list has one
SetStatus(t, requestId, status) ==
    [t EXCEPT !.hd.requests =
        [i \in DOMAIN @ |-> IF @[i].id = requestId THEN [@[i] EXCEPT !.status = status]
                            ELSE @[i]]]

\* cfg.hd.ReportBadHeaderPoS(badHeader, lastValidAncestor)
ReportBadHeaderPoS(t, badHeader, lastValidAncestor) ==
    [t EXCEPT !.hd.badHeaders = Put(@, badHeader, lastValidAncestor)]

\* cfg.hd.UpdateTopSeenHeightPoS(blockHeight)
UpdateTopSeenHeightPoS(t, blockHeight) ==
    [t EXCEPT !.hd.topSeenHeight = IF blockHeight > @ THEN blockHeight ELSE @]

\* the head header hash is left as it was
WriteHeadHeaderHash_skip(d, hash) == d

\* rawdb.WriteHeadHeaderHash(tx, hash)
WriteHeadHeaderHash(d, hash) == [d EXCEPT !.head = hash]

\* rawdb.ReadCanonicalHash(tx, number)
CanonicalHash(d, n) == IF n \in Numbers THEN d.canonical[n] ELSE ZeroHash

\* HeaderInserter.FeedHeaderPoS(tx, header, hash): needs the parent's total
\* difficulty; writes the header and its total difficulty
FeedHeaderPoS(t, header) ==
    IF t.fail = "FeedHeaderPoS" \/ ParentHash(header) \notin t.fv.db.headers
    THEN [t EXCEPT !.err = TRUE]
    ELSE [t EXCEPT !.fv.db.headers = @ \cup {header},
                   !.hi = [highest |-> Number(header), highestHash |-> header],
                   !.fed = Append(@, header)]

\* HeaderInserter.ForkingPoint(tx, header, parent): walks the ancestors of the
\* header until one is canonical at its height
RECURSIVE ForkingPoint(_, _)
ForkingPoint(d, header) ==
    IF Number(header) = 0 \/ header = ZeroHash THEN 0
    ELSE IF CanonicalHash(d, Number(header) - 1) = ParentHash(header)
    THEN Number(header) - 1
    ELSE ForkingPoint(d, ParentHash(header))

\* a forking point that is always the parent's height
forkingPoint_parent(d, header) ==
    IF Number(header) = 0 THEN 0 ELSE Number(header) - 1

\* func forkingPoint(ctx, tx, headerInserter, headerReader, header)
forkingPoint(d, header) ==
    IF Number(header) = 0 THEN 0 ELSE ForkingPoint(d, header)

\* a fixCanonicalChain that writes no canonical marker
fixCanonicalLoop_noWrite(d, ancestorHeight, ancestorHash) ==
    [d |-> d, err |-> FALSE, writes |-> <<>>]

\* a fixCanonicalChain that goes on below a marker that matches, down to
\* block 1
RECURSIVE fixCanonicalLoop_toGenesis(_, _, _)
fixCanonicalLoop_toGenesis(d, ancestorHeight, ancestorHash) ==
    IF ancestorHeight = 0 \/ ancestorHash \notin d.headers
    THEN [d |-> d, err |-> FALSE, writes |-> <<>>]
    ELSE LET d1 == [d EXCEPT !.canonical[ancestorHeight] = ancestorHash]
             r == fixCanonicalLoop_toGenesis(d1, ancestorHeight - 1, ParentHash(ancestorHash))
         IN  [r EXCEPT !.writes = <<[height |-> ancestorHeight, hash |-> ancestorHash]>> \o @]

\* func fixCanonicalChain(logPrefix, logEvery, height, hash, tx, headerReader):
\* [d: the store after the writes made, err, writes: the calls of
\* rawdb.WriteCanonicalHash in the order made]
RECURSIVE fixCanonicalLoop(_, _, _)
fixCanonicalLoop(d, ancestorHeight, ancestorHash) ==
    IF CanonicalHash(d, ancestorHeight) = ancestorHash
    THEN [d |-> d, err |-> FALSE, writes |-> <<>>]
    ELSE LET d1 == IF ancestorHeight \in Numbers
                   THEN [d EXCEPT !.canonical[ancestorHeight] = ancestorHash]
                   ELSE d
             write == [height |-> ancestorHeight, hash |-> ancestorHash]
             wrote(r) == [r EXCEPT !.writes = <<write>> \o @]
         IN  IF ancestorHash \notin d.headers
             THEN [d |-> d1, err |-> TRUE, writes |-> <<write>>]   \* "ancestor is nil"
             ELSE wrote(fixCanonicalLoop(d1, ancestorHeight - 1, ParentHash(ancestorHash)))

fixCanonicalChain(d, height, hash, fail) ==
    IF height = 0 THEN [d |-> d, err |-> FALSE, writes |-> <<>>]
    ELSE IF fail = "fixCanonicalChain" THEN [d |-> d, err |-> TRUE, writes |-> <<>>]
    ELSE fixCanonicalLoop(d, height, hash)

\* a writeForkChoiceHashes that writes no pointer
writeForkChoiceHashes_skip(t, forkChoice) == [t |-> t, canonical |-> TRUE, err |-> FALSE]

\* func writeForkChoiceHashes(forkChoice, s, tx, cfg): [t, canonical, err]
writeForkChoiceHashes(t, forkChoice) ==
    LET d == t.fv.db
        reads == forkChoice.safe # ZeroHash \/ forkChoice.finalized # ZeroHash
        safeIsCanonical ==
            forkChoice.safe = ZeroHash \/ IsCanonicalHash(d, forkChoice.safe)
        finalizedIsCanonical ==
            forkChoice.finalized = ZeroHash \/ IsCanonicalHash(d, forkChoice.finalized)
    IN  IF reads /\ t.fail = "IsCanonicalHash"
        THEN [t |-> t, canonical |-> FALSE, err |-> TRUE]
        ELSE IF ~safeIsCanonical \/ ~finalizedIsCanonical
        THEN [t |-> t, canonical |-> FALSE, err |-> FALSE]
        ELSE [t |-> [t EXCEPT !.fv.db.forkchoice =
                        [head |-> forkChoice.head,
                         safe |-> IF forkChoice.safe # ZeroHash
                                  THEN forkChoice.safe ELSE @.safe,
                         finalized |-> IF forkChoice.finalized # ZeroHash
                                       THEN forkChoice.finalized ELSE @.finalized]],
              canonical |-> TRUE, err |-> FALSE]


\* a schedulePoSDownload that anchors the download at the payload's own height
schedulePoSDownload_ownHeight(t, requestId, hashToDownload, heightToDownload, downloaderTip) ==
    IF t.hd.posStatus # "Idle"
    THEN [t |-> t, ok |-> FALSE]
    ELSE [t |-> [t EXCEPT !.hd.requestId = requestId,
                          !.hd.posDownloaderTip = downloaderTip,
                          !.hd.headerToDownload = hashToDownload,
                          !.hd.heightToDownload = heightToDownload + 1,
                          !.hd.headersCollector = [headers |-> <<>>],
                          !.hd.posStatus = "Syncing"],
          ok |-> TRUE]

\* a schedulePoSDownload that replaces the download in progress
schedulePoSDownload_replaces(t, requestId, hashToDownload, heightToDownload, downloaderTip) ==
    [t |-> [t EXCEPT !.hd.requestId = requestId,
                     !.hd.posDownloaderTip = downloaderTip,
                     !.hd.headerToDownload = hashToDownload,
                     !.hd.heightToDownload = heightToDownload,
                     !.hd.headersCollector = [headers |-> <<>>],
                     !.hd.posStatus = "Syncing"],
     ok |-> t.hd.posStatus = "Idle"]

\* func schedulePoSDownload(requestId, hashToDownload, heightToDownload, downloaderTip, s, cfg):
\* [t, ok]
schedulePoSDownload(t, requestId, hashToDownload, heightToDownload, downloaderTip) ==
    LET t1 == SetStatus(t, requestId, "DataWasMissing")
    IN  IF t1.hd.posStatus # "Idle"
        THEN [t |-> t1, ok |-> FALSE]
        ELSE [t |-> [t1 EXCEPT !.hd.requestId = requestId,
                               !.hd.posDownloaderTip = downloaderTip,
                               !.hd.headerToDownload = hashToDownload,
                               !.hd.heightToDownload = heightToDownload,
                               !.hd.headersCollector = [headers |-> <<>>],
                               !.hd.posStatus = "Syncing"],
              ok |-> TRUE]

\* the headers the PoS downloader collects: from the header to download back
\* to a header the store has, in key (block number) order
RECURSIVE MissingChain(_, _)
MissingChain(d, h) ==
    IF h = ZeroHash \/ h \in d.headers \/ h \notin Hashes THEN <<>>
    ELSE Append(MissingChain(d, ParentHash(h)), h)

\* the PoS downloader finishes: the collector is loaded, the status is Synced
\* and the Synced interrupt is raised
downloadCompletes(t) ==
    [t EXCEPT !.hd.headersCollector =
                  [headers |-> MissingChain(t.fv.db, t.hd.headerToDownload)],
              !.hd.posStatus = "Synced",
              !.hd.interrupt = "Synced"]

\* verifyAndSaveDownloadedPoSHeaders: headerLoadFunc over the collector
\* [t, lastValidHash, badChainError, err]
RECURSIVE headerLoad(_, _, _, _, _)
headerLoad(t, hs, lastValidHash, badChainError, foundPow) ==
    IF hs = <<>>
    THEN [t |-> t, lastValidHash |-> lastValidHash, badChainError |-> badChainError,
          err |-> FALSE]
    ELSE LET h == Head(hs)
             \* badChainError = err: h is the header that failed
             rejects(t1) == [t1 EXCEPT !.rejected = Append(@, h)]
             stop(t1, lvh) == [t |-> [t1 EXCEPT !.err = FALSE], lastValidHash |-> lvh,
                               badChainError |-> badChainError, err |-> TRUE]
             fed(f, pow) ==
                IF f.err THEN stop(f, ParentHash(h))
                ELSE headerLoad(f, Tail(hs), ParentHash(h), badChainError, pow)
             feed(t1, pow) == fed(FeedHeaderPoS(t1, h), pow)
             validated(res, t1) ==
                IF res.r.criticalError THEN stop(t1, ParentHash(h))
                ELSE IF res.r.validationError
                THEN headerLoad(rejects(ReportBadHeaderPoS(t1, h, ParentHash(h))),
                                Tail(hs), ParentHash(h), TRUE, foundPow)
                ELSE feed(t1, FALSE)
             validate(res) == validated(res, callFV(t, res))
         IN  IF t.fail = "Load"
             THEN stop(t, lastValidHash)              \* rlp.DecodeBytes fails
             ELSE IF badChainError
             THEN headerLoad(ReportBadHeaderPoS(t, h, lastValidHash), Tail(hs),
                             lastValidHash, TRUE, foundPow)
             ELSE IF h = t.badSeal
             THEN headerLoad(rejects(ReportBadHeaderPoS(t, h, ParentHash(h))), Tail(hs),
                             ParentHash(h), TRUE, foundPow)
             ELSE IF foundPow \/ h \in PoWBlocks
             THEN feed(t, TRUE)
             ELSE validate(ValidatePayload(t.fv, StageTxn, h, Nil, FALSE, t.fvOut))

\* a replay that sets the status Idle and leaves the collector in place
verifyAndSaveDownloadedPoSHeaders_keepsCollector(t) ==
    [t EXCEPT !.hd.posStatus = "Idle",
              !.replays = Append(@, [collector |-> t.hd.headersCollector # Nil,
                                     status |-> t.hd.posStatus,
                                     requestId |-> t.hd.requestId])]

\* a replay that does not report the downloader tip
verifyAndSaveDownloadedPoSHeaders_keepsTip(t) ==
    LET loaded(l) ==
            IF l.err \/ l.badChainError THEN Remove(l.t, l.t.hd.requestId) ELSE l.t
        close(t1) == [t1 EXCEPT !.hd.headersCollector = Nil, !.hd.posStatus = "Idle"]
    IN  close(loaded(headerLoad(t, t.hd.headersCollector.headers, ZeroHash, FALSE, FALSE)))

\* func verifyAndSaveDownloadedPoSHeaders(tx, cfg, headerInserter)
verifyAndSaveDownloadedPoSHeaders(t) ==
    LET loaded(l) ==
            IF l.err \/ l.badChainError
            THEN ReportBadHeaderPoS(Remove(l.t, l.t.hd.requestId),
                                    l.t.hd.posDownloaderTip, l.lastValidHash)
            ELSE l.t
        close(t1) == [t1 EXCEPT !.hd.headersCollector = Nil, !.hd.posStatus = "Idle"]
        \* the download state the replay was entered with
        entered == [collector |-> t.hd.headersCollector # Nil, status |-> t.hd.posStatus,
                    requestId |-> t.hd.requestId]
        began == [t EXCEPT !.replays = Append(@, entered)]
    IN  close(loaded(headerLoad(began, t.hd.headersCollector.headers, ZeroHash, FALSE, FALSE)))

\* func verifyAndSaveNewPoSHeader(requestStatus, s, ctx, tx, cfg, block, headerInserter):
\* t.reply, t.success, t.err are its results
verifyAndSaveNewPoSHeader(t, requestStatus, block) ==
    LET header == block
        headerNumber == Number(header)
        headerHash == block
        d == t.fv.db
        currentHeadHash == d.head
        result(t1, response, success, err) ==
            [t1 EXCEPT !.reply = response, !.success = success, !.err = err]
    IN  IF headerHash \in DOMAIN t.hd.badHeaders
        THEN result([t EXCEPT !.path = "bad"],
                    PayloadStatus("INVALID", t.hd.badHeaders[headerHash]), FALSE, FALSE)
        ELSE IF headerHash = t.badSeal
        THEN result([ReportBadHeaderPoS(t, headerHash, ParentHash(header))
                        EXCEPT !.path = "badSeal"],
                    [PayloadStatus("INVALID", ParentHash(header))
                        EXCEPT !.validationError = TRUE], FALSE, FALSE)
        ELSE IF t.fail = "forkingPoint"
        THEN result([t EXCEPT !.path = "forkingPoint"], Nil, FALSE, TRUE)
        ELSE
        LET forkingHash == CanonicalHash(d, forkingPoint(d, header))
            canExtendCanonical == forkingHash = currentHeadHash
        IN  IF cfg.memoryOverlay
            THEN LET extendingHash == ExtendingForkHeadHash(t.fv)
                     extendCanonical ==
                        \/ extendingHash = ZeroHash /\ ParentHash(header) = currentHeadHash
                        \/ extendingHash = ParentHash(header)
                     fed(f, response) ==
                        IF f.err THEN result(f, Nil, FALSE, TRUE)
                        ELSE result(f, response, TRUE, FALSE)
                     validated(res, t1, response) ==
                        IF res.r.criticalError THEN result(t1, Nil, FALSE, TRUE)
                        ELSE IF res.r.validationError
                        THEN result(ReportBadHeaderPoS(t1, headerHash,
                                                       res.r.latestValidHash),
                                    response, FALSE, FALSE)
                        ELSE fed(FeedHeaderPoS(t1, header), response)
                     validate(res) ==
                        validated(res, [callFV(t, res) EXCEPT !.path = "overlay"],
                                  [PayloadStatus(res.r.status, res.r.latestValidHash)
                                     EXCEPT !.validationError = res.r.validationError])
                 IN  validate(ValidatePayload(t.fv, StageTxn, header, RawBody(block),
                                              extendCanonical, t.fvOut))
            ELSE
            LET f == FeedHeaderPoS(t, header)
            IN  IF f.err THEN result([f EXCEPT !.path = "feed"], Nil, FALSE, TRUE)
                ELSE IF ~canExtendCanonical
                THEN result([f EXCEPT !.path = "sideChain"],
                            PayloadStatus("ACCEPTED", ZeroHash), TRUE, FALSE)
                ELSE
                LET t1 == [(IF requestStatus = "New"
                            THEN SetPendingPayloadHash(f, headerHash) ELSE f)
                             EXCEPT !.path = "canonical"]
                    fx == fixCanonicalChain(t1.fv.db, t1.hi.highest, t1.hi.highestHash,
                                            t1.fail)
                    t2 == [t1 EXCEPT !.fv.db = fx.d]
                IN  IF fx.err THEN result(t2, Nil, FALSE, TRUE)
                    ELSE IF t.fail = "WriteHeadHeaderHash" THEN result(t2, Nil, FALSE, TRUE)
                    ELSE IF t.fail = "Update"
                    THEN result([t2 EXCEPT !.fv.db = WriteHeadHeaderHash(@, headerHash)],
                                Nil, FALSE, TRUE)
                    ELSE result([t2 EXCEPT !.fv.db = [WriteHeadHeaderHash(@, headerHash)
                                                        EXCEPT !.progress.Headers =
                                                                   headerNumber]],
                                Nil, TRUE, FALSE)

\* func handleNewPayload(block, requestStatus, requestId, s, ctx, tx, cfg, test, headerInserter)
handleNewPayload(t, block, requestStatus, requestId) ==
    LET header == block
        headerNumber == Number(header)
        headerHash == block
        t0 == UpdateTopSeenHeightPoS(t, headerNumber)
        syncing(t1, path) == [t1 EXCEPT !.reply = Syncing, !.path = path]
        verified(v) == IF v.err \/ ~v.success THEN v
                       ELSE [v EXCEPT !.prefetch = @ \cup {block}]
        verify(t1) ==
            verified(verifyAndSaveNewPoSHeader(Remove(t1, requestId), requestStatus, block))
    IN  IF t.fail = "HeaderByHash"
        THEN [t0 EXCEPT !.err = TRUE, !.path = "readParent"]
        ELSE IF ParentHash(header) \notin t0.fv.db.headers
        THEN LET t1 == Remove(t0, requestId)
             IN  IF cfg.test THEN syncing(t1, "parentMissing")
                 ELSE
                 LET sch == schedulePoSDownload(t1, requestId, ParentHash(header),
                                                headerNumber - 1, headerHash)
                     currentHeadNumber == Number(t1.fv.db.headBlock)
                 IN  IF ~sch.ok THEN syncing(sch.t, "downloadBusy")
                     ELSE IF /\ t1.fv.db.headBlock # ZeroHash
                             /\ AbsoluteDifference(currentHeadNumber, headerNumber) < 32
                     THEN IF t.inTime
                          THEN verify(verifyAndSaveDownloadedPoSHeaders(downloadCompletes(sch.t)))
                          ELSE syncing(sch.t, "downloading")
                     ELSE syncing(sch.t, "downloadingFar")
        ELSE verify(t0)


\* startHandlingForkChoice: cfg.memoryOverlay && headerHash == cfg.forkValidator.ExtendingForkHeadHash()
shouldFlush_anyFork(t, headerHash) ==
    cfg.memoryOverlay /\ ExtendingForkHeadHash(t.fv) # ZeroHash

shouldFlush(t, headerHash) ==
    cfg.memoryOverlay /\ headerHash = ExtendingForkHeadHash(t.fv)

\* startHandlingForkChoice up to its return statement
forkChoiceBody(t, forkChoice, requestStatus, requestId) ==
    LET headerHash == forkChoice.head
        currentHeadHash == t.fv.db.head
        removed == Remove(t, requestId)
        return(t1, path, status) == [t1 EXCEPT !.reply = status, !.path = path]
        fails(t1, path) == [t1 EXCEPT !.err = TRUE, !.path = path]
    IN  IF currentHeadHash = headerHash
        THEN LET w == writeForkChoiceHashes(removed, forkChoice)
             IN  IF w.err THEN fails(w.t, "noop")
                 ELSE IF w.canonical
                 THEN return(w.t, "noop", PayloadStatus("VALID", currentHeadHash))
                 ELSE return(w.t, "noop", InvalidForkchoiceStateErr)
        ELSE IF t.fail = "HeaderByHash" THEN fails(removed, "readHeader")
        ELSE IF headerHash \notin t.fv.db.headers
        THEN return(IF cfg.test THEN removed
                    ELSE schedulePoSDownload(removed, requestId, headerHash, 0, headerHash).t,
                    "unknownHead", Syncing)
        ELSE IF shouldFlush(removed, headerHash)
        THEN LET t1 == callFV(removed,
                              FlushExtendingFork(removed.fv, StageTxn, t.fail # "Flush"))
                 w == writeForkChoiceHashes(t1, forkChoice)
             IN  IF t1.calls[Len(t1.calls)].criticalError THEN fails(t1, "flush")
                 ELSE IF w.err THEN fails(w.t, "flush")
                 ELSE IF w.canonical
                 THEN return(SetPendingPayloadHash(w.t, headerHash), "flush", Nil)
                 ELSE return(w.t, "flush", InvalidForkchoiceStateErr)
        ELSE LET headerNumber == Number(headerHash)
                 t1 == UpdateTopSeenHeightPoS(removed, headerNumber)
                 fp == forkingPoint(t1.fv.db, headerHash)
                 t2 == IF requestStatus # "New" THEN t1
                       ELSE IF headerNumber - fp <= ShortPoSReorgThresholdBlocks
                       THEN SetPendingPayloadHash(t1, headerHash)
                       ELSE push(t1, Syncing, t1.id)
             IN  IF t.fail = "forkingPoint" THEN fails(t1, "reorg")
                 ELSE return([t2 EXCEPT !.unwindPoint = [to |-> fp],
                                        !.hd.unsettledForkChoice =
                                            [forkChoice |-> forkChoice,
                                             headHeight |-> headerNumber]],
                             "reorg", Nil)

\* a startHandlingForkChoice that defers nothing
startHandlingForkChoice_noDefer(t, forkChoice, requestStatus, requestId) ==
    forkChoiceBody(t, forkChoice, requestStatus, requestId)

\* func startHandlingForkChoice(forkChoice, requestStatus, requestId, s, u, ctx, tx, cfg, test, headerInserter)
\* with its deferred cfg.forkValidator.ClearWithUnwind
startHandlingForkChoice(t, forkChoice, requestStatus, requestId) ==
    LET deferred(r) ==
            IF cfg.memoryOverlay
            THEN callFV(r, ClearWithUnwind(r.fv, StageTxn, cfg.accumulator, t.rd))
            ELSE r
    IN  deferred(forkChoiceBody(t, forkChoice, requestStatus, requestId))

\* func finishHandlingForkChoice(forkChoice, headHeight, s, tx, cfg, useExternalTx)
finishHandlingForkChoice(t, forkChoice, headHeight) ==
    LET fx == fixCanonicalChain(t.fv.db, headHeight, forkChoice.head, t.fail)
        t1 == [t EXCEPT !.fv.db = fx.d, !.path = "finish"]
        t2 == [t1 EXCEPT !.fv.db = WriteHeadHeaderHash(@, forkChoice.head)]
        w == writeForkChoiceHashes(t2, forkChoice)
        t3 == [w.t EXCEPT !.fv.db.progress.Headers = headHeight]
        t4 == IF w.canonical THEN t3
              ELSE ClearPendingPayloadHash(
                      IF t3.hd.pendingPayloadHash # ZeroHash
                      THEN push(t3, InvalidForkchoiceStateErr, t3.pendingFor)
                      ELSE t3)
        fails(t5) == [t5 EXCEPT !.err = TRUE]
    IN  IF fx.err THEN fails(t1)
        ELSE IF t.fail = "WriteHeadHeaderHash" THEN fails(t1)
        ELSE IF w.err THEN fails(w.t)
        ELSE IF t.fail = "Update" THEN fails(w.t)
        ELSE IF ~cfg.useExternalTx /\ t.fail = "Commit" THEN fails(t3)
        ELSE [t4 EXCEPT !.hd.unsettledForkChoice = Nil]

\* BeaconRequestList.firstRequest(onlyNew): the index of the request handed out (0: none)
firstRequest(requests, onlyNew) ==
    LET ok == {i \in DOMAIN requests : ~onlyNew \/ requests[i].status = "New"}
    IN  IF ok = {} THEN 0 ELSE CHOOSE i \in ok : \A j \in ok : i <= j

\* func HeadersPOS(s, u, ctx, tx, cfg, initialCycle, test, useExternalTx)
\* t.path = "wait": WaitForRequest has nothing to return yet
HeadersPOS(t, initialCycle) ==
    LET syncing == t.hd.posStatus # "Idle"
        interrupt == t.hd.interrupt
        i == firstRequest(t.hd.requests, syncing)
    IN  IF initialCycle THEN [t EXCEPT !.path = "initialCycle"]
        ELSE IF interrupt = "Stopping"
        THEN [t EXCEPT !.hd.shutdown = TRUE, !.err = TRUE, !.path = "stopping"]
        ELSE IF interrupt # "None"
        THEN \* handleInterrupt: Synced
             LET t1 == [t EXCEPT !.hd.interrupt = "None", !.path = "interrupt"]
                 commit(t2) == IF ~cfg.useExternalTx /\ t.fail = "Commit"
                               THEN [t2 EXCEPT !.err = TRUE] ELSE t2
             IN  commit(IF t1.hd.headersCollector # Nil
                        THEN verifyAndSaveDownloadedPoSHeaders(t1) ELSE t1)
        ELSE IF i = 0
        THEN [t EXCEPT !.path = IF cfg.test THEN "nilRequest" ELSE "wait"]
        ELSE
        LET request == t.hd.requests[i]
            requestStatus == request.status
            t1 == clearPending([t EXCEPT !.id = request.id, !.dequeued = TRUE,
                                         !.head = request.forkChoice.head,
                                         !.block = request.block])
            handled(r) ==
                IF r.err
                THEN IF requestStatus = "New" THEN push(r, CriticalError("err"), r.id)
                     ELSE r
                ELSE IF ~cfg.useExternalTx /\ t.fail = "Commit"
                THEN [r EXCEPT !.err = TRUE]
                ELSE IF requestStatus = "New" /\ r.reply # Nil
                THEN IF r.reply.status \in {"SYNCING", "ACCEPTED"} \/ ~cfg.useExternalTx
                     THEN push(r, r.reply, r.id)
                     ELSE SetPendingPayloadStatus(r, r.reply)
                ELSE r
        IN  handled(IF request.kind = "forkChoice"
                    THEN startHandlingForkChoice(t1, request.forkChoice, requestStatus,
                                                 request.id)
                    ELSE handleNewPayload(t1, request.block, requestStatus, request.id))


\* header.Difficulty: not zero for the proof-of-work blocks G, A and X
Difficulty(h) == IF h \in {G, A, X} THEN 1 ELSE 0

\* rawdb.ReadTd: the total difficulty of header h
RECURSIVE TotalDifficulty(_)
TotalDifficulty(h) ==
    IF h \notin Hashes THEN 0 ELSE Difficulty(h) + TotalDifficulty(ParentHash(h))

\* cfg.chainConfig.TerminalTotalDifficulty: reached by A and by X, not by G
TerminalTotalDifficulty == 2

\* rawdb.Transitioned(tx, blockNum, terminalTotalDifficulty): the canonical
\* header at blockNum is a proof-of-stake header or its total difficulty has
\* reached the terminal total difficulty
Transitioned(d, blockNum) ==
    LET header == CanonicalHash(d, blockNum)
    IN  /\ header # ZeroHash
        /\ \/ Difficulty(header) = 0
           \/ TotalDifficulty(header) >= TerminalTotalDifficulty

\* libcommon.SafeClose(cfg.hd.QuitPoWMining): closes the channel unless it
\* is closed already
SafeClose(t) ==
    IF t.hd.quitPoWMining.closed THEN t
    ELSE [t EXCEPT !.hd.quitPoWMining = [closed |-> TRUE, closes |-> @.closes + 1]]

\* cfg.hd.SetFirstPoSHeight(blockNumber)
SetFirstPoSHeight(t, blockHeight) ==
    [t EXCEPT !.hd.firstPoSHeight = [height |-> blockHeight]]

\* the proof-of-work headers the peers serve: the chain up to the terminal block
PeerHeaders == {G, A}

\* func HeadersPOW(s, u, ctx, tx, cfg, initialCycle, test, useExternalTx), with
\* cfg.noP2PDiscovery off.  t.inTime: the peers deliver their headers
\* (cfg.hd.InsertHeaders); t.path = "wait": no header arrives, the loop goes on
HeadersPOW(t, initialCycle) ==
    LET d == t.fv.db
        headerProgress == d.progress.Headers
        hash == CanonicalHash(d, headerProgress)
        commit(r) == IF ~cfg.useExternalTx /\ t.fail = "Commit"
                     THEN [r EXCEPT !.err = TRUE] ELSE r
        fails(r) == [r EXCEPT !.err = TRUE]
        \* InsertHeaders: the headers above the progress are fed
        inserted == {h \in PeerHeaders : Number(h) > headerProgress}
        highestHash == CHOOSE h \in inserted : \A g \in inserted : Number(g) <= Number(h)
        lowest == CHOOSE h \in inserted : \A g \in inserted : Number(h) <= Number(g)
        unwindPoint == ForkingPoint(d, lowest)
        unwind == unwindPoint < headerProgress
        fed == [d EXCEPT !.headers = @ \cup inserted]
        fx == IF unwind THEN [d |-> fed, err |-> FALSE, writes |-> <<>>]
              ELSE fixCanonicalChain(fed, Number(highestHash), highestHash, t.fail)
        t1 == [t EXCEPT !.path = "pow",
                        !.hi = [highest |-> Number(highestHash),
                                highestHash |-> highestHash],
                        !.unwindPoint = IF unwind THEN [to |-> unwindPoint] ELSE @,
                        !.fv.db = [WriteHeadHeaderHash(fx.d, highestHash)
                                      EXCEPT !.progress.Headers = Number(highestHash)]]
    IN  IF hash = ZeroHash
        THEN \* straight after an unwind: new canonical markings
             LET fixed == fixCanonicalChain(d, headerProgress, d.head, t.fail)
             IN  IF fixed.err THEN fails([t EXCEPT !.path = "powFix"])
                 ELSE commit([t EXCEPT !.path = "powFix", !.fv.db = fixed.d])
        ELSE IF ~t.inTime \/ inserted = {} THEN [t EXCEPT !.path = "wait"]
        ELSE IF fx.err THEN fails([t EXCEPT !.path = "pow"])
        ELSE IF t.fail \in {"WriteHeadHeaderHash", "Update"}
        THEN fails([t EXCEPT !.path = "pow"])
        ELSE commit(t1)

\* the order of the hashes as byte strings
HashOrder == <<G, A, X, B, Y, C, W, E, F>> \o LongFork
HashRank(h) == CHOOSE i \in DOMAIN HashOrder : HashOrder[i] = h

\* the order of the keys of kv.Headers and kv.HeaderTD: block number, then hash
KeyBefore(a, b) ==
    \/ Number(a) < Number(b)
    \/ Number(a) = Number(b) /\ HashRank(a) < HashRank(b)

\* HeadersUnwind, the cursor over kv.Headers from block n to the last block
\* top: a header whose parent is bad is reported bad
RECURSIVE markDescendants(_, _, _, _)
markDescendants(bad, headers, n, top) ==
    IF n > top THEN bad
    ELSE markDescendants(bad \cup {h \in headers : Number(h) = n /\ ParentHash(h) \in bad},
                         headers, n + 1, top)

\* a HeadersUnwind that reports the bad block only
HeadersUnwind_onlyBlock(t, unwindPoint, badBlock) ==
    [t EXCEPT !.hd.badPoWHeaders = @ \cup {badBlock},
              !.fv.db.canonical = [n \in Numbers |-> IF n > unwindPoint THEN ZeroHash ELSE @[n]],
              !.fv.db.head = CanonicalHash(t.fv.db, unwindPoint),
              !.fv.db.progress.Headers = unwindPoint]

\* func HeadersUnwind(u, s, tx, cfg, test): the store and the bad headers after it
HeadersUnwind(t, unwindPoint, badBlock) ==
    LET d == t.fv.db
        top == CHOOSE n \in {Number(h) : h \in d.headers} :
                  \A h \in d.headers : Number(h) <= n
        bad == IF badBlock = ZeroHash THEN t.hd.badPoWHeaders
               ELSE markDescendants(t.hd.badPoWHeaders \cup {badBlock}, d.headers,
                                    unwindPoint + 1, top)
        truncated == [d EXCEPT !.canonical =
                        [n \in Numbers |-> IF n > unwindPoint THEN ZeroHash ELSE @[n]]]
        \* the cursor over kv.HeaderTD from the last key back: the first row
        \* met with the biggest total difficulty
        good == {h \in d.headers : h \notin bad /\ TotalDifficulty(h) > 0}
        heaviest == CHOOSE h \in good :
                       \A g \in good \ {h} :
                          \/ TotalDifficulty(g) < TotalDifficulty(h)
                          \/ TotalDifficulty(g) = TotalDifficulty(h) /\ KeyBefore(g, h)
        elect == cfg.test /\ good # {} /\ Number(heaviest) # 0
        maxNum == IF elect THEN Number(heaviest) ELSE unwindPoint
        maxHash == IF elect THEN heaviest ELSE CanonicalHash(truncated, unwindPoint)
    IN  IF badBlock = ZeroHash
        THEN [t EXCEPT !.fv.db = truncated]
        ELSE [t EXCEPT !.hd.badPoWHeaders = bad,
                       !.fv.db = [truncated EXCEPT !.head = maxHash,
                                                   !.progress.Headers = maxNum]]

\* FinishForward, `select { case cfg.headCh <- block: default: }`: the
\* channel after it (Nil: cfg.headCh is nil; the zero hash: no block is offered)
publishHead(headCh, block) ==
    IF headCh = Nil \/ block = ZeroHash THEN headCh
    ELSE IF Len(headCh.buf) < HeadChCap THEN [buf |-> Append(headCh.buf, block)]
    ELSE headCh

\* a FinishForward that does not compare the execution progress with its own
FinishForward_always(s) ==
    LET n == NotifyCurrentHeight([s EXCEPT !.db.headBlock = s.db.head,
                                           !.db.progress.Finish = s.db.progress.Execution],
                                 s.db.progress.Execution)
    IN  [s |-> n.s, r |-> n.r, block |-> s.db.head]

\* func FinishForward(s, tx, cfg, initialCycle): the ForkValidator and store
\* after it, the call of NotifyCurrentHeight and the block offered to headCh
FinishForward(s) ==
    LET executionAt == s.db.progress.Execution
        n == NotifyCurrentHeight([s EXCEPT !.db.headBlock = s.db.head,
                                           !.db.progress.Finish = executionAt],
                                 executionAt)
    IN  IF executionAt <= s.db.progress.Finish
        THEN [s |-> s, r |-> NoCall, block |-> ZeroHash]
        ELSE [s |-> n.s, r |-> n.r, block |-> s.db.head]

\* ------------------------------------------------------------------------
\* SpecStage: the stage loop in proof-of-stake mode.  A cycle runs the headers
\* stage (SpawnStageHeaders), the unwind it asked for and the headers stage
\* again, the stages between headers and finish, FinishForward, and then
\* commits and sends the reply that was deferred.  The consensus layer adds
\* requests and reads replies; the PoS downloader finishes downloads.
\* ------------------------------------------------------------------------

\* requests the consensus layer sends in one run
MaxRequests == 2

\* calls of the headers stage that fail in one run
MaxFaults == 1

NoForkChoice == [head |-> ZeroHash, safe |-> ZeroHash, finalized |-> ZeroHash]

\* the requests of the consensus layer
StageRequests ==
    {[kind |-> "newPayload", block |-> b, forkChoice |-> NoForkChoice] :
        b \in {B, C, X, F}}
    \cup {[kind |-> "forkChoice", block |-> ZeroHash,
           forkChoice |-> [head |-> h, safe |-> sf, finalized |-> ZeroHash]] :
            h \in {G, A, B, C}, sf \in {ZeroHash, X}}

StageOutcomes == {Outcome("error", "ok", 0), Outcome("ok", "err", 0)}
BadSeals == {B, C}
Answer(fail, fvOut, badSeal, inTime, rd) ==
    [fail |-> fail, fvOut |-> fvOut, badSeal |-> badSeal, inTime |-> inTime, rd |-> rd]

\* what the environment answers during one invocation: all goes well, or one
\* thing goes wrong
Answers ==
    LET ok == Outcome("ok", "ok", 0)
    IN  {Answer("none", ok, ZeroHash, it, "ok") : it \in BOOLEAN}
        \cup {Answer(f, ok, ZeroHash, FALSE, "ok") : f \in FailPoints}
        \cup {Answer("none", o, ZeroHash, it, "ok") : o \in StageOutcomes, it \in BOOLEAN}
        \cup {Answer("none", ok, b, it, "ok") : b \in BadSeals, it \in BOOLEAN}
        \cup {Answer("none", ok, ZeroHash, FALSE, "noHeader")}

StageStartWith(passed, known) ==
    /\ InitFVWith(known) /\ validatePayload /\ db.bodies = {G, A}
    /\ Quiet
    /\ cfg \in [memoryOverlay : BOOLEAN, accumulator : {TRUE}, useExternalTx : BOOLEAN,
                terminalTotalDifficultyPassed : passed,
                test : {FALSE}]
    /\ hd = NewHd
    /\ PayloadStatusCh = Nil
    /\ loop = [phase |-> "headers", initialCycle |-> TRUE, unwindPoint |-> Nil,
               durable |-> db, faults |-> 0, headCh |-> Nil]
    /\ step = NoStep
    /\ order = [dequeued |-> <<>>, replied |-> <<>>, serving |-> 0, pendingFor |-> 0,
                heads |-> <<>>, blocks |-> <<>>]

StageStart(passed) == StageStartWith(passed, {})

\* the chain configuration says the terminal total difficulty is passed
InitStage == StageStart({TRUE})

\* the results of a stage invocation take effect.  A failed invocation ends
\* the cycle and its transaction is rolled back; a reply is pushed when the
\* channel has room for it.
Settle(op, r, faulty) ==
    LET d == IF r.err THEN loop.durable ELSE r.fv.db
    IN  /\ r.out # <<>> => PayloadStatusCh = Nil
        /\ Install([r.fv EXCEPT !.db = d])
        /\ hd' = r.hd
        /\ PayloadStatusCh' = IF r.out = <<>> THEN PayloadStatusCh ELSE r.out[Len(r.out)]
        /\ call' = IF r.calls = <<>> THEN call ELSE r.calls[Len(r.calls)]
        /\ step' = [op |-> op, id |-> r.id, head |-> r.head, block |-> r.block,
                    path |-> r.path, reply |-> r.reply, out |-> r.out, err |-> r.err,
                    calls |-> r.calls, fed |-> r.fed, rejected |-> r.rejected,
                    replays |-> r.replays]
        /\ order' = [dequeued |-> IF r.dequeued /\ \A i \in DOMAIN order.dequeued :
                                                    order.dequeued[i] # r.id
                                  THEN Append(order.dequeued, r.id) ELSE order.dequeued,
                     replied |-> order.replied \o [i \in DOMAIN r.out |-> r.out[i].for],
                     serving |-> r.id,
                     pendingFor |-> r.pendingFor,
                     heads |-> order.heads,
                     blocks |-> order.blocks]
        /\ loop' = [loop EXCEPT !.phase = IF r.err THEN "headers"
                                          ELSE IF r.unwindPoint # Nil THEN "unwind"
                                          ELSE "forward",
                                !.unwindPoint = r.unwindPoint,
                                !.durable = IF ~r.err /\ ~cfg.useExternalTx THEN d ELSE @,
                                !.faults = IF faulty THEN @ + 1 ELSE @]
        /\ UNCHANGED <<lockVars, cfg>>

\* func SpawnStageHeaders(s, u, ctx, tx, cfg, initialCycle, test)
SpawnStageHeaders ==
    /\ loop.phase = "headers" /\ ~hd.shutdown
    /\ \E a \in Answers :
          /\ a.fail # "none" => loop.faults < MaxFaults
          /\ LET t == Invocation(a.fail, a.fvOut, a.badSeal, a.inTime, a.rd)
                 unsettled == hd.unsettledForkChoice
                 blockNumber == db.progress.Headers
                 reads == ~cfg.terminalTotalDifficultyPassed
                 transitionedToPoS ==
                     cfg.terminalTotalDifficultyPassed \/ Transitioned(db, blockNumber)
             IN  \E r \in {IF unsettled # Nil
                           THEN finishHandlingForkChoice(t, unsettled.forkChoice,
                                                         unsettled.headHeight)
                           ELSE IF reads /\ a.fail = "Transitioned"
                           THEN [t EXCEPT !.err = TRUE, !.path = "transitioned"]
                           ELSE IF transitionedToPoS
                           THEN HeadersPOS(SafeClose(IF reads
                                                     THEN SetFirstPoSHeight(t, blockNumber)
                                                     ELSE t),
                                           loop.initialCycle)
                           ELSE HeadersPOW(t, loop.initialCycle)} :
                    /\ r.path # "wait"
                    \* a failure that no call of this invocation met is no failure
                    /\ a.fail # "none" => r.err
                    /\ Settle("SpawnStageHeaders", r, a.fail # "none")

\* a step of the loop outside the headers stage: its transaction commits at
\* once when the stages own their transactions
LoopStep(op, d, phase) ==
    /\ db' = d
    /\ loop' = [loop EXCEPT !.phase = phase, !.unwindPoint = Nil,
                            !.durable = IF cfg.useExternalTx THEN @ ELSE d]
    /\ step' = [NoStep EXCEPT !.op = op]
    /\ UNCHANGED <<lockVars, cfg, hd, PayloadStatusCh, order, call>>

\* the unwind the headers stage asked for: the stages unwind in reverse order,
\* HeadersUnwind last, and the cycle starts again at the headers stage
Unwind ==
    /\ loop.phase = "unwind"
    /\ LET u == loop.unwindPoint.to
           t == Invocation("none", Outcome("ok", "ok", 0), ZeroHash, FALSE, "ok")
           d == [db EXCEPT !.progress.Finish = IF @ > u THEN u ELSE @,
                           !.progress.Execution = IF @ > u THEN u ELSE @,
                           !.state = {h \in @ : Number(h) <= u}]
           r == HeadersUnwind([t EXCEPT !.fv.db = d], u, ZeroHash)
       IN  /\ LoopStep("HeadersUnwind", r.fv.db, "headers")
           /\ UNCHANGED <<sideForksBlock, extendingFork, extendingForkHeadHash,
                          currentHeight, validatePayload, memBatches>>

\* the stages between headers and finish: the canonical blocks up to the
\* headers progress are executed
Forward ==
    /\ loop.phase = "forward"
    /\ LET at == db.progress.Headers
           d == [db EXCEPT !.progress.Execution = IF at > @ THEN at ELSE @,
                           !.state = @ \cup {h \in db.headers : Number(h) <= at
                                                 /\ IsCanonicalHash(db, h)}]
       IN  /\ LoopStep("Forward", d, "finish")
           /\ UNCHANGED <<sideForksBlock, extendingFork, extendingForkHeadHash,
                          currentHeight, validatePayload, memBatches>>

\* the finish stage
DoFinishForward ==
    /\ loop.phase = "finish"
    /\ \E res \in {FinishForward(Sys)} :
          /\ Install(res.s)
          /\ call' = IF res.r = NoCall THEN call ELSE res.r
          /\ loop' = [loop EXCEPT !.phase = "commit",
                                  !.durable = IF cfg.useExternalTx THEN @ ELSE res.s.db,
                                  !.headCh = publishHead(@, res.block)]
          /\ step' = [NoStep EXCEPT !.op = "FinishForward"]
          /\ UNCHANGED <<lockVars, cfg, hd, PayloadStatusCh, order>>

\* the cycle ends: the transaction of the loop commits and the reply that
\* was deferred is sent
EndCycle ==
    /\ loop.phase = "commit"
    /\ LET deferred == IF hd.pendingPayloadStatus # Nil THEN <<hd.pendingPayloadStatus>>
                       ELSE IF hd.pendingPayloadHash # ZeroHash
                       THEN <<[PayloadStatus("VALID", hd.pendingPayloadHash)
                                  EXCEPT !.for = order.pendingFor]>>
                       ELSE <<>>
       IN  /\ deferred # <<>> => PayloadStatusCh = Nil
           /\ PayloadStatusCh' = IF deferred = <<>> THEN PayloadStatusCh ELSE deferred[1]
           /\ hd' = [hd EXCEPT !.pendingPayloadHash = ZeroHash,
                               !.pendingPayloadStatus = Nil]
           /\ order' = [order EXCEPT !.replied = @ \o [i \in DOMAIN deferred |->
                                                          deferred[i].for],
                                     !.pendingFor = 0]
           /\ loop' = [loop EXCEPT !.phase = "headers", !.initialCycle = FALSE,
                                   !.durable = db]
           /\ step' = [NoStep EXCEPT !.op = "EndCycle", !.out = deferred]
           /\ UNCHANGED <<fvVars, lockVars, cfg, call>>

\* one of the given requests enters the request list with one of the given statuses
AddRequestOf(requests, statuses) ==
    /\ hd.nextId <= MaxRequests
    /\ \E q \in requests, status \in statuses :
          /\ hd' = [hd EXCEPT !.requests = Append(@, [id |-> hd.nextId, kind |-> q.kind,
                                                   block |-> q.block,
                                                   forkChoice |-> q.forkChoice,
                                                   status |-> status]),
                           !.nextId = @ + 1]
          /\ order' = [order EXCEPT !.heads = Append(@, q.forkChoice.head),
                                    !.blocks = Append(@, q.block)]
    /\ step' = [NoStep EXCEPT !.op = "AddRequest"]
    /\ UNCHANGED <<fvVars, lockVars, cfg, PayloadStatusCh, loop, call>>

\* a request of the consensus layer enters the request list with one of the
\* given statuses
AddRequestAs(statuses) == AddRequestOf(StageRequests, statuses)

\* the consensus layer sends a request
AddRequest == AddRequestAs({"New"})

\* the consensus layer reads the reply
ConsumeReply ==
    /\ PayloadStatusCh # Nil
    /\ PayloadStatusCh' = Nil
    /\ step' = [NoStep EXCEPT !.op = "ConsumeReply"]
    /\ UNCHANGED <<fvVars, lockVars, cfg, hd, loop, order, call>>

\* the PoS downloader finishes the download it was given
DownloadHeaders ==
    /\ hd.posStatus = "Syncing"
    /\ hd' = downloadCompletes(Invocation("none", Outcome("ok", "ok", 0), ZeroHash,
                                          FALSE, "ok")).hd
    /\ step' = [NoStep EXCEPT !.op = "DownloadHeaders"]
    /\ UNCHANGED <<fvVars, lockVars, cfg, PayloadStatusCh, loop, order, call>>

NextStage ==
    \/ SpawnStageHeaders
    \/ Unwind
    \/ Forward
    \/ DoFinishForward
    \/ EndCycle
    \/ AddRequest
    \/ ConsumeReply
    \/ DownloadHeaders

SpecStage == InitStage /\ [][NextStage]_vars

\* ------------------------------------------------------------------------
\* Properties of the stage loop (SpecStage)
\* ------------------------------------------------------------------------

\* the step called FlushExtendingFork
Flushed(st) == \E i \in DOMAIN st.calls : st.calls[i].op = "FlushExtendingFork"

\* C7: the stage calls FlushExtendingFork only when the memory overlay is
\* enabled, an extending overlay exists and the forkchoice head equals
\* extendingForkHeadHash; after a successful flush no overlay remains,
\* extendingForkHeadHash is zero and, when the handler goes on without error,
\* the writes of the overlay are in the transaction.
C7_FlushOnlyExtendingHead ==
    [][Flushed(step') =>
          /\ cfg.memoryOverlay
          /\ extendingFork # Nil
          /\ step'.head = extendingForkHeadHash
          /\ ~step'.calls[1].criticalError =>
                /\ extendingFork' = Nil
                /\ extendingForkHeadHash' = ZeroHash
                /\ ~step'.err => extendingFork.writes \subseteq db'.state]_vars

\* a forkchoice for the head of the overlay flushed a non-empty overlay
C7_Flushed ==
    /\ Flushed(step) /\ ~step.err /\ step.path = "flush"
    /\ step.head \in db.state
    /\ hd.pendingPayloadHash = step.head
    /\ extendingFork = Nil

\* the place of request x in the order of dequeuing
Pos(seq, x) == CHOOSE i \in DOMAIN seq : seq[i] = x

\* C10: the replies leave the stage in the order in which their requests
\* were dequeued: no reply for a later request comes before the reply of an
\* earlier request, whether pushed by the handler or sent at the commit.
C10_RepliesInRequestOrder ==
    /\ \A i \in DOMAIN order.replied :
          \E k \in DOMAIN order.dequeued : order.dequeued[k] = order.replied[i]
    /\ \A i, j \in DOMAIN order.replied :
          i < j => Pos(order.dequeued, order.replied[i])
                      <= Pos(order.dequeued, order.replied[j])

\* two requests were answered, the second one at the commit
C10_DeferredAfterDirect ==
    /\ step.op = "EndCycle" /\ step.out # <<>>
    /\ Len(order.replied) >= 2
    /\ order.replied[1] # order.replied[Len(order.replied)]

\* a reply that says VALID
IsValidReply(p) == p.status = "VALID" /\ p.criticalError = "none" /\ ~p.validationError

\* C11: a reply VALID is pushed only when the state of the block it names
\* (latestValidHash: the payload, or the head of the forkchoice) is in the
\* committed store; never while it is only in the overlay of the fork
\* validator or in a transaction not yet committed.
C11_ValidOnlyWhenDurable ==
    [][\A i \in DOMAIN step'.out :
          IsValidReply(step'.out[i]) =>
              step'.out[i].latestValidHash \in loop'.durable.state]_vars

\* the reply answers a forkchoice request with VALID
IsValidForkChoiceReply(p) ==
    IsValidReply(p) /\ p.for \in DOMAIN order.heads /\ order.heads[p.for] # ZeroHash

\* C12: when the stage answers a forkchoice request for head h with VALID,
\* the head header of the committed store is h at the time of the reply.
C12_ValidForkChoiceHead ==
    [][\A i \in DOMAIN step'.out :
          IsValidForkChoiceReply(step'.out[i]) =>
              /\ loop'.durable.head = order.heads[step'.out[i].for]
              /\ db'.head = order.heads[step'.out[i].for]]_vars

\* a forkchoice for the block staged in the overlay was answered VALID at
\* the commit, after the flush
C12_FlushedHeadValid ==
    /\ cfg.memoryOverlay
    /\ step.op = "EndCycle"
    /\ \E i \in DOMAIN step.out :
          /\ IsValidForkChoiceReply(step.out[i])
          /\ step.out[i].latestValidHash = B
          /\ db.head = B /\ loop.durable.head = B

\* the step ran the validate capability
Validated(st) == \E i \in DOMAIN st.calls : st.calls[i].validate # "none"

\* C13: once a header is recorded as bad, a later NewPayload of a child of
\* it is answered INVALID without running validate, and no entry of the
\* bad-header set is ever removed.
C13_BadParentInvalid ==
    [][/\ DOMAIN hd.badHeaders \subseteq DOMAIN hd'.badHeaders
       /\ (/\ step'.op = "SpawnStageHeaders"
           /\ step'.block # ZeroHash
           /\ ParentHash(step'.block) \in DOMAIN hd.badHeaders)
          => /\ ~Validated(step')
             /\ \E i \in DOMAIN step'.out : step'.out[i].status = "INVALID"]_vars

\* the ancestor of header h at height n (n <= Number(h))
RECURSIVE AncestorAt(_, _)
AncestorAt(h, n) == IF Number(h) <= n THEN h ELSE AncestorAt(ParentHash(h), n)

\* C14: a fork choice that took the re-org path for head Z leaves an
\* unsettled fork choice that only the headers stage changes; the next
\* invocation of the headers stage runs finishHandlingForkChoice and takes no
\* request from the list; when it succeeds the head header is Z, the
\* canonical index holds the ancestors of Z from the forking point + 1 up to
\* Z's height, the stage progress is Z's height and the unsettled fork choice
\* is cleared.
C14_FinishAfterReorg ==
    [][/\ step'.op # "SpawnStageHeaders" =>
             hd'.unsettledForkChoice = hd.unsettledForkChoice
       /\ (step'.op = "SpawnStageHeaders" /\ step'.path = "reorg" /\ ~step'.err)
             => /\ hd'.unsettledForkChoice # Nil
                /\ hd'.unsettledForkChoice.forkChoice.head = step'.head
       /\ (step'.op = "SpawnStageHeaders" /\ hd.unsettledForkChoice # Nil)
             => LET Z == hd.unsettledForkChoice.forkChoice.head
                    fp == forkingPoint(db, Z)
                IN  /\ step'.path = "finish"
                    /\ order'.dequeued = order.dequeued
                    /\ hd'.requests = hd.requests
                    /\ ~step'.err =>
                          /\ db'.head = Z
                          /\ \A n \in (fp + 1)..Number(Z) :
                                db'.canonical[n] = AncestorAt(Z, n)
                          /\ db'.progress.Headers = Number(Z)
                          /\ hd'.unsettledForkChoice = Nil]_vars

\* C14 witness: the re-org from head B back to A is finished
C14_ReorgFinished ==
    /\ step.op = "SpawnStageHeaders" /\ step.path = "finish" /\ ~step.err
    /\ db.head = A /\ db.canonical[Number(A)] = A /\ db.canonical[Number(B)] = ZeroHash
    /\ B \in db.headers
    /\ db.progress.Headers = Number(A)
    /\ hd.unsettledForkChoice = Nil

\* ------------------------------------------------------------------------
\* SpecCanon: the canonical index under HeadersUnwind and fixCanonicalChain.
\* The store starts with the canonical index of the chain that ends in its
\* head header, the headers of that chain and any other headers; the index is
\* then truncated above any height and fixed from the head, in any order.
\* ------------------------------------------------------------------------

\* the headers of the chain that ends in h
Chain(h) == {AncestorAt(h, n) : n \in 0..Number(h)}

\* the canonical index of the chain that ends in h
ChainIndex(h) ==
    [n \in Numbers |-> IF n <= Number(h) THEN AncestorAt(h, n) ELSE ZeroHash]

InitCanon ==
    /\ sideForksBlock = EmptyMap
    /\ extendingFork = Nil
    /\ extendingForkHeadHash = ZeroHash
    /\ validatePayload = FALSE
    /\ memBatches = 0
    /\ call = NoCall
    /\ \E h \in Hashes, others \in SUBSET Hashes :
          /\ others \cap Chain(h) = {}
          /\ currentHeight = Number(h)
          /\ db = [headers |-> Chain(h) \cup others,
                   canonical |-> ChainIndex(h),
                   bodies |-> Chain(h),
                   state |-> Chain(h),
                   head |-> h,
                   headBlock |-> h,
                   forkchoice |-> [head |-> ZeroHash, safe |-> ZeroHash,
                                   finalized |-> ZeroHash],
                   progress |-> [Headers |-> Number(h), Execution |-> Number(h),
                                 Finish |-> Number(h)]]
    /\ Quiet
    /\ StageQuiet

\* HeadersUnwind to height k, no bad block
CanonUnwind ==
    \E k \in Numbers :
        /\ db' = HeadersUnwind(Invocation("none", Outcome("ok", "ok", 0), ZeroHash,
                                          FALSE, "ok"), k, ZeroHash).fv.db
        /\ step' = [NoStep EXCEPT !.op = "HeadersUnwind"]
        /\ UNCHANGED <<sideForksBlock, extendingFork, extendingForkHeadHash,
                       currentHeight, validatePayload, memBatches, call, lockVars,
                       cfg, hd, PayloadStatusCh, loop, order>>

\* fixCanonicalChain from the head header
CanonFix ==
    \E fx \in {fixCanonicalChain(db, Number(db.head), db.head, "none")} :
        /\ db' = fx.d
        /\ step' = [NoStep EXCEPT !.op = "fixCanonicalChain", !.head = db.head,
                                  !.err = fx.err, !.calls = fx.writes]
        /\ UNCHANGED <<sideForksBlock, extendingFork, extendingForkHeadHash,
                       currentHeight, validatePayload, memBatches, call, lockVars,
                       cfg, hd, PayloadStatusCh, loop, order>>

NextCanon ==
    \/ CanonUnwind
    \/ CanonFix

SpecCanon == InitCanon /\ [][NextCanon]_vars

\* C15: from a canonical index that is the ancestor chain of the head
\* header h_n, truncated above any height k by HeadersUnwind,
\* fixCanonicalChain(n, hash(h_n)) restores exactly the original index (the
\* one committed before the unwind), and a fixCanonicalChain that follows
\* another writes no canonical marker.
C15_UnwindFixRoundTrip ==
    [][step'.op = "fixCanonicalChain" =>
          /\ ~step'.err
          /\ db'.canonical = ChainIndex(db.head)
          /\ db'.canonical = loop.durable.canonical
          /\ step.op = "fixCanonicalChain" => step'.calls = <<>> /\ db' = db]_vars

\* C15 witness: the index of the chain G, A, B, C was truncated above G's
\* successor or lower and fixCanonicalChain wrote the markers of B and C back
C15_MarkersRestored ==
    /\ step.op = "fixCanonicalChain" /\ db.head = C
    /\ Len(step.calls) >= 2
    /\ step.calls[1] = [height |-> Number(C), hash |-> C]
    /\ step.calls[2] = [height |-> Number(B), hash |-> B]
    /\ db.canonical = ChainIndex(C)

\* ------------------------------------------------------------------------
\* Properties of the stage loop (SpecStage), continued
\* ------------------------------------------------------------------------

\* the persistent state the two paths are compared on
EndState(d) ==
    [head |-> d.head, canonical |-> d.canonical,
     progress |-> [Headers |-> d.progress.Headers, Execution |-> d.progress.Execution],
     forkchoice |-> d.forkchoice]

\* the persistent state with head H: its chain canonical, the stages at its
\* height, the forkchoice head pointing at it
HeadAt(H) ==
    [head |-> H, canonical |-> ChainIndex(H),
     progress |-> [Headers |-> Number(H), Execution |-> Number(H)],
     forkchoice |-> [head |-> H, safe |-> ZeroHash, finalized |-> ZeroHash]]

C16_DirectEndState ==
    /\ ~cfg.memoryOverlay
    /\ \E i \in DOMAIN step.out :
          /\ IsValidForkChoiceReply(step.out[i])
          /\ order.heads[step.out[i].for] = B
          /\ order.blocks = <<B, ZeroHash>>
    /\ EndState(db) = HeadAt(B)
    /\ EndState(loop.durable) = HeadAt(B)

\* ------------------------------------------------------------------------
\* SpecMode: the stage loop when the chain configuration does not say that
\* the terminal total difficulty is passed: every invocation of the headers
\* stage decides between HeadersPOS and HeadersPOW from the total difficulty
\* at the stage's block number.
\* ------------------------------------------------------------------------
InitMode == StageStart({FALSE})

SpecMode == InitMode /\ [][NextStage]_vars

\* C17 (as claimed): once an invocation of the headers stage has entered
\* PoS mode (it closed the PoW mining quit channel), no later invocation
\* runs HeadersPOW, and the quit channel is closed exactly once.
C17_PoSOneWay ==
    [][/\ (hd.quitPoWMining.closed /\ step'.op = "SpawnStageHeaders")
             => step'.path \notin {"pow", "powFix"}
       /\ hd'.quitPoWMining.closes <= 1
       /\ hd'.quitPoWMining.closed => hd'.quitPoWMining.closes = 1]_vars

\* ------------------------------------------------------------------------
\* Properties of the stage loop (SpecStage), continued
\* ------------------------------------------------------------------------

\* the fields schedulePoSDownload sets for the PoS downloader
Download(h) ==
    [hash |-> h.headerToDownload, height |-> h.heightToDownload,
     tip |-> h.posDownloaderTip, status |-> h.posStatus]

\* C18: handleNewPayload of a block P whose parent header is absent and
\* that is 32 or more blocks away from the current head (or there is no
\* current head) returns SYNCING, which is pushed when the invocation does
\* not fail, and validate is not invoked; when no download is in progress a
\* PoS download is scheduled for P.parentHash at height P.number - 1 with
\* downloader tip hash(P), and otherwise the download in progress is kept.
C18_FarPayloadSyncing ==
    [][(/\ step'.op = "SpawnStageHeaders"
        /\ step'.block # ZeroHash
        /\ step'.path # "readParent"
        /\ ParentHash(step'.block) \notin db.headers
        /\ \/ db.headBlock = ZeroHash
           \/ AbsoluteDifference(Number(db.headBlock), Number(step'.block)) >= 32)
       => /\ step'.reply = Syncing
          /\ ~step'.err =>
                \E i \in DOMAIN step'.out :
                    step'.out[i].status = "SYNCING" /\ step'.out[i].for = step'.id
          /\ ~Validated(step')
          /\ db' = db
          /\ IF hd.posStatus = "Idle"
             THEN Download(hd') = [hash |-> ParentHash(step'.block),
                                   height |-> Number(step'.block) - 1,
                                   tip |-> step'.block, status |-> "Syncing"]
             ELSE Download(hd') = Download(hd)]_vars

\* C18 witness: with head block C, NewPayload(F) is exactly 32 blocks ahead;
\* SYNCING is pushed and the download of E at height 34 towards F is scheduled
C18_FarDownloadScheduled ==
    /\ step.op = "SpawnStageHeaders" /\ step.block = F /\ step.path = "downloadingFar"
    /\ Number(F) - Number(db.headBlock) = 32
    /\ \E i \in DOMAIN step.out : step.out[i].status = "SYNCING"
    /\ Download(hd) = [hash |-> E, height |-> Number(E), tip |-> F, status |-> "Syncing"]

\* ------------------------------------------------------------------------
\* Properties of the ForkValidator (Spec), continued
\* ------------------------------------------------------------------------

\* the step is a ValidatePayload call for a header the cache held before it
CachedCall ==
    call'.op = "ValidatePayload" /\ call'.header \in DOMAIN sideForksBlock

\* what the claim says of a call for a cached header
ShortCircuited ==
    /\ call'.status = "VALID" /\ ~call'.criticalError /\ ~call'.validationError
    /\ call'.latestValidHash = call'.header
    /\ call'.validate = "none"
    /\ extendingFork' = extendingFork
    /\ extendingForkHeadHash' = extendingForkHeadHash

RECURSIVE WalkEnd(_)
WalkEnd(cur) ==
    IF IsCanonicalHash(db, cur) THEN "canonical"
    ELSE IF cur \notin DOMAIN sideForksBlock THEN "missing"
    ELSE IF cur \in db.bodies THEN "hasBody"
    ELSE WalkEnd(ParentHash(cur))

\* C20: a ValidatePayload call with extendCanonical = false for a header
\* that is not cached returns ACCEPTED without invoking validate, without
\* caching the header and without touching the overlay whenever (a) the
\* header is more than maxForkDepth blocks from currentHeight, or, the reads
\* of the walk succeeding, (b) the backward walk reaches an ancestor that
\* is neither canonical nor cached or (c) it reaches a cached ancestor
\* whose body is in the persistent body table.
C20_SideForkAccepted ==
    [][(/\ call'.op = "ValidatePayload" /\ ~call'.extendCanonical
        /\ call'.header \notin DOMAIN sideForksBlock
        /\ \/ AbsoluteDifference(currentHeight, Number(call'.header)) > maxForkDepth
           \/ /\ ~call'.criticalError
              /\ WalkEnd(ParentHash(call'.header)) \in {"missing", "hasBody"})
       => /\ call'.status = "ACCEPTED"
          /\ ~call'.criticalError /\ ~call'.validationError
          /\ call'.validate = "none"
          /\ call'.header \notin DOMAIN sideForksBlock'
          /\ extendingFork' = extendingFork
          /\ extendingForkHeadHash' = extendingForkHeadHash
          /\ memBatches' = memBatches]_vars

\* C20 witness (c): Y is within range, its parent X is cached and not
\* canonical, and X's body is in the body table: ACCEPTED, Y not cached
C20_AncestorBodyStored ==
    /\ call.op = "ValidatePayload" /\ ~call.extendCanonical /\ call.header = Y
    /\ validatePayload /\ currentHeight = Number(A)
    /\ X \in DOMAIN sideForksBlock /\ X \in db.bodies /\ ~IsCanonicalHash(db, X)
    /\ call.status = "ACCEPTED" /\ call.validate = "none"
    /\ Y \notin DOMAIN sideForksBlock

\* C20 (a): Y is more than maxForkDepth blocks from currentHeight
C20_OutOfRange ==
    /\ call.op = "ValidatePayload" /\ ~call.extendCanonical /\ call.header = Y
    /\ validatePayload /\ currentHeight = FarHeight
    /\ call.status = "ACCEPTED" /\ call.validate = "none"

\* C20 (b): Y's parent X is neither canonical nor cached
C20_MissingAncestor ==
    /\ call.op = "ValidatePayload" /\ ~call.extendCanonical /\ call.header = Y
    /\ validatePayload /\ currentHeight = Number(A)
    /\ X \notin DOMAIN sideForksBlock /\ ~IsCanonicalHash(db, X)
    /\ call.status = "ACCEPTED" /\ call.validate = "none"

\* ------------------------------------------------------------------------
\* The arguments of validate on the side-fork path
\* ------------------------------------------------------------------------

\* the first ancestor, from cur backwards, that is canonical in the current
\* store (the zero hash if there is none)
RECURSIVE CanonicalAncestor(_)
CanonicalAncestor(cur) ==
    IF cur = ZeroHash \/ IsCanonicalHash(db, cur) THEN cur
    ELSE CanonicalAncestor(ParentHash(cur))

\* the step is a ValidatePayload call that invoked validate on the side-fork path
SideValidated == call'.op = "ValidatePayload" /\ call'.path = "side"

\* C21 as claimed: when the walk stops at a canonical ancestor, the unwind
\* point computed for validate is that ancestor's block number + 1.
C21_UnwindPointAsClaimed ==
    [][SideValidated =>
          call'.walkUnwindPoint = Number(CanonicalAncestor(ParentHash(call'.header))) + 1]_vars

\* C21: when the backward walk stops at an ancestor that is canonical in tx,
\* the unwind point computed for validate is that ancestor's block number
\* (the number of the ancestor's child on the fork, minus one).
C21_UnwindPointIsAncestor ==
    [][SideValidated =>
          /\ IsCanonicalHash(db, CanonicalAncestor(ParentHash(call'.header)))
          /\ call'.walkUnwindPoint = Number(CanonicalAncestor(ParentHash(call'.header)))]_vars

\* C21 witness: Y validated on the side fork G - X - Y, X taken from the
\* cache: the walk stopped at G and the unwind point is 0 = Number(G)
C21_WalkedToGenesis ==
    /\ call.op = "ValidatePayload" /\ call.path = "side" /\ call.header = Y
    /\ call.headersChain = <<X>> /\ call.validate # "none"
    /\ IsCanonicalHash(db, G) /\ call.walkUnwindPoint = Number(G)

\* C22: on the side-fork path validate receives unwindPoint = 0 exactly when
\* the computed unwind point equals currentHeight, and a non-zero unwind
\* point for every fork whose canonical ancestor lies below currentHeight,
\* a fork branching at block 0 included.
C22_ZeroMeansNoUnwind ==
    [][SideValidated =>
          /\ call'.unwindPoint = 0 <=> call'.walkUnwindPoint = currentHeight
          /\ Number(CanonicalAncestor(ParentHash(call'.header))) < currentHeight
                => call'.unwindPoint # 0]_vars

\* C23: the headersChain and bodiesChain passed to validate on the side-fork
\* path have equal length, do not contain the header under test and are
\* ordered oldest first: the first element's parent is canonical, each
\* element is the parent of the next and the last element is the parent of
\* the header under test; each body is the cached body of its header.
C23_ChainsOldestFirst ==
    [][SideValidated =>
          LET hc == call'.headersChain
              bc == call'.bodiesChain
              n  == Len(call'.headersChain)
          IN  /\ Len(bc) = n
              /\ \A i \in 1..n : hc[i] # call'.header /\ bc[i] = sideForksBlock[hc[i]]
              /\ IF n = 0
                 THEN IsCanonicalHash(db, ParentHash(call'.header))
                 ELSE /\ IsCanonicalHash(db, ParentHash(hc[1]))
                      /\ \A i \in 1..(n - 1) : hc[i] = ParentHash(hc[i + 1])
                      /\ hc[n] = ParentHash(call'.header)]_vars

\* C23 witness: W validated on the side fork G - X - Y - W with X and Y taken
\* from the cache, oldest first
C23_TwoCachedAncestors ==
    /\ call.op = "ValidatePayload" /\ call.path = "side" /\ call.header = W
    /\ call.validate # "none"
    /\ call.headersChain = <<X, Y>>
    /\ call.bodiesChain = <<sideForksBlock[X], sideForksBlock[Y]>>

\* ------------------------------------------------------------------------
\* The stage loop with requests of either status (SpecStatus): the request
\* list hands out requests marked New or DataWasMissing
\* ------------------------------------------------------------------------

\* a request enters the request list marked New or DataWasMissing
AddMarkedRequest == AddRequestAs({"New", "DataWasMissing"})

NextStatus ==
    \/ SpawnStageHeaders
    \/ Unwind
    \/ Forward
    \/ DoFinishForward
    \/ EndCycle
    \/ AddMarkedRequest
    \/ ConsumeReply
    \/ DownloadHeaders

SpecStatus == InitStage /\ [][NextStatus]_vars

\* the step is a headers-stage invocation that took the request with the
\* given status from the request list
Served(status) ==
    /\ step'.op = "SpawnStageHeaders" /\ step'.id # 0
    /\ order'.dequeued # order.dequeued
    /\ \E i \in DOMAIN hd.requests :
          hd.requests[i].id = step'.id /\ hd.requests[i].status = status

ForkChoices ==
    {[kind |-> "forkChoice", block |-> ZeroHash,
      forkChoice |-> [head |-> h, safe |-> sf, finalized |-> fin]] :
        h \in {G, A, B}, sf \in {ZeroHash, G, A, X}, fin \in {ZeroHash, G, X}}

\* the consensus layer sends a fork choice
AddForkChoice == AddRequestOf(ForkChoices, {"New"})

NextChoice ==
    \/ SpawnStageHeaders
    \/ Unwind
    \/ Forward
    \/ DoFinishForward
    \/ EndCycle
    \/ AddForkChoice
    \/ ConsumeReply
    \/ DownloadHeaders

SpecChoice == InitStage /\ [][NextChoice]_vars

\* the fork choice message of the request the step took from the request list
ServedForkChoice ==
    hd.requests[CHOOSE i \in DOMAIN hd.requests : hd.requests[i].id = step'.id].forkChoice

\* every safe and finalized hash the message supplies is canonical in tx
SuppliedAreCanonical(fc) ==
    /\ fc.safe # ZeroHash => IsCanonicalHash(db, fc.safe)
    /\ fc.finalized # ZeroHash => IsCanonicalHash(db, fc.finalized)

\* C25: when forkChoice.head equals the current head hash,
\* startHandlingForkChoice requests no unwind and schedules no download; if
\* every supplied safe and finalized hash is canonical it writes the head and
\* the supplied safe and finalized forkchoice pointers and answers VALID with
\* latestValidHash = current head; otherwise it writes none of the three
\* pointers and answers with the InvalidForkchoiceState critical error.
C25_NoOpForkChoice ==
    [][(/\ step'.op = "SpawnStageHeaders" /\ order'.dequeued # order.dequeued
        /\ step'.head # ZeroHash /\ step'.head = db.head /\ ~step'.err)
       => /\ loop'.unwindPoint = Nil /\ hd'.unsettledForkChoice = Nil
          /\ hd'.posStatus = hd.posStatus /\ hd'.headerToDownload = hd.headerToDownload
          /\ hd'.headersCollector = hd.headersCollector
          /\ db'.head = db.head /\ db'.canonical = db.canonical
          /\ IF SuppliedAreCanonical(ServedForkChoice)
             THEN /\ step'.reply = PayloadStatus("VALID", db.head)
                  /\ db'.forkchoice.head = step'.head
                  /\ db'.forkchoice.safe = IF ServedForkChoice.safe # ZeroHash
                                           THEN ServedForkChoice.safe
                                           ELSE db.forkchoice.safe
                  /\ db'.forkchoice.finalized = IF ServedForkChoice.finalized # ZeroHash
                                                THEN ServedForkChoice.finalized
                                                ELSE db.forkchoice.finalized
             ELSE /\ step'.reply = InvalidForkchoiceStateErr
                  /\ db'.forkchoice = db.forkchoice]_vars

\* C25 witness: a no-op fork choice naming canonical safe and finalized
\* blocks was answered VALID and the three pointers are written
C25_PointersWritten ==
    /\ step.op = "SpawnStageHeaders" /\ step.path = "noop" /\ ~step.err
    /\ step.head = A /\ db.head = A
    /\ step.reply = PayloadStatus("VALID", A)
    /\ db.forkchoice = [head |-> A, safe |-> A, finalized |-> G]

\* C25: a no-op fork choice naming a block that is not canonical was answered
\* with InvalidForkchoiceState and no pointer is written
C25_PointersRefused ==
    /\ step.op = "SpawnStageHeaders" /\ step.path = "noop" /\ ~step.err
    /\ step.head = A /\ db.head = A
    /\ step.reply = InvalidForkchoiceStateErr
    /\ db.forkchoice = NoForkChoice

\* ------------------------------------------------------------------------
\* The stage loop over a store that knows the headers of the long fork
\* (SpecReorg)
\* ------------------------------------------------------------------------

InitReorg == StageStartWith({TRUE}, LongForkHashes)

\* fork choices for the heads of short and long re-orgs and for an unknown head
ReorgChoices ==
    {[kind |-> "forkChoice", block |-> ZeroHash,
      forkChoice |-> [head |-> h, safe |-> ZeroHash, finalized |-> ZeroHash]] :
        h \in {G, A, B, LongFork[10], LongFork[11]}}

\* the consensus layer sends a fork choice
AddReorgChoice == AddRequestOf(ReorgChoices, {"New"})

NextReorg ==
    \/ SpawnStageHeaders
    \/ Unwind
    \/ Forward
    \/ DoFinishForward
    \/ EndCycle
    \/ AddReorgChoice
    \/ ConsumeReply
    \/ DownloadHeaders

SpecReorg == InitReorg /\ [][NextReorg]_vars

\* the greatest block number below header h at which the canonical hash of
\* the current store is an ancestor of h (0 for the block 0)
GreatestCommonHeight(h) ==
    IF Number(h) = 0 THEN 0
    ELSE CHOOSE n \in 0..(Number(h) - 1) :
            /\ db.canonical[n] = AncestorAt(h, n)
            /\ \A m \in (n + 1)..(Number(h) - 1) : db.canonical[m] # AncestorAt(h, m)

\* the step served a fork choice with status New on the re-org path: the head
\* is a known header, it is not the current head and it is not the head of
\* the extending fork of the memory overlay
ReorgServed ==
    /\ Served("New") /\ step'.head # ZeroHash /\ ~step'.err
    /\ step'.head # db.head /\ step'.head \in db.headers
    /\ ~(cfg.memoryOverlay /\ step'.head = extendingForkHeadHash)

\* C26: on the re-org path with a New request the stage requests an unwind
\* to the forking point and stashes (forkChoice, head height) as unsettled; it
\* pushes SYNCING at once if and only if head.number - forkingPoint > 10, and
\* otherwise pushes nothing and sets the pending payload hash to the head hash.
C26_ReorgReply ==
    [][ReorgServed =>
          /\ loop'.unwindPoint = [to |-> GreatestCommonHeight(step'.head)]
          /\ hd'.unsettledForkChoice = [forkChoice |-> ServedForkChoice,
                                        headHeight |-> Number(step'.head)]
          /\ hd'.pendingPayloadStatus = Nil
          /\ IF Number(step'.head) - GreatestCommonHeight(step'.head) > 10
             THEN /\ step'.out = <<[Syncing EXCEPT !.for = step'.id]>>
                  /\ hd'.pendingPayloadHash = ZeroHash
             ELSE /\ step'.out = <<>>
                  /\ hd'.pendingPayloadHash = step'.head]_vars

\* C26 witness: a re-org of 11 blocks (to L11, forking point 0) was answered
\* SYNCING at once
C26_LongReorgSyncing ==
    /\ step.op = "SpawnStageHeaders" /\ step.path = "reorg" /\ ~step.err
    /\ step.head = LongFork[11] /\ loop.unwindPoint = [to |-> 0]
    /\ step.out = <<[Syncing EXCEPT !.for = step.id]>>
    /\ hd.pendingPayloadHash = ZeroHash /\ hd.unsettledForkChoice # Nil

\* C26: a re-org of 10 blocks (to L10, forking point 0) pushed nothing and
\* set the pending payload hash
C26_ShortReorgPending ==
    /\ step.op = "SpawnStageHeaders" /\ step.path = "reorg" /\ ~step.err
    /\ step.head = LongFork[10] /\ loop.unwindPoint = [to |-> 0]
    /\ step.out = <<>>
    /\ hd.pendingPayloadHash = LongFork[10] /\ hd.unsettledForkChoice # Nil

\* ------------------------------------------------------------------------
\* handleNewPayload with the memory overlay (SpecStage)
\* ------------------------------------------------------------------------

\* call i of the step is the ValidatePayload call for the payload of the request
PayloadCall(i) ==
    /\ step'.calls[i].op = "ValidatePayload"
    /\ step'.calls[i].header = step'.block /\ step'.calls[i].withBody

\* C27: with the memory overlay handleNewPayload calls ValidatePayload with
\* extendCanonical = true if and only if (extendingForkHeadHash is zero and
\* header.parentHash is the current head hash) or extendingForkHeadHash is
\* header.parentHash; when the call returns no critical error and the
\* invocation does not fail, the header is fed into the HeaderInserter if and
\* only if no validation error was returned, and the reply carries the
\* validator's status, latestValidHash and validation error.
C27_OverlayNewPayload ==
    [][(step'.op = "SpawnStageHeaders" /\ step'.block # ZeroHash) =>
          \A i \in DOMAIN step'.calls : PayloadCall(i) =>
              /\ cfg.memoryOverlay
              /\ i = 1 => (step'.calls[i].extendCanonical <=>
                              \/ /\ extendingForkHeadHash = ZeroHash
                                 /\ ParentHash(step'.block) = db.head
                              \/ extendingForkHeadHash = ParentHash(step'.block))
              /\ (~step'.calls[i].criticalError /\ ~step'.err) =>
                    /\ (\E k \in DOMAIN step'.fed : step'.fed[k] = step'.block)
                          <=> ~step'.calls[i].validationError
                    /\ step'.reply =
                          [PayloadStatus(step'.calls[i].status,
                                         step'.calls[i].latestValidHash)
                             EXCEPT !.validationError = step'.calls[i].validationError]]_vars

\* C27 witness: the payload C on top of the extending fork head B was
\* validated with extendCanonical = true, fed and answered VALID
C27_ExtendedOnOverlay ==
    /\ step.op = "SpawnStageHeaders" /\ step.block = C /\ ~step.err
    /\ Len(step.calls) = 1 /\ step.calls[1].op = "ValidatePayload"
    /\ step.calls[1].header = C /\ step.calls[1].extendCanonical
    /\ db.head = A /\ extendingForkHeadHash = C
    /\ step.fed = <<C>>
    /\ step.reply = PayloadStatus("VALID", C)

\* C27: a payload that failed validation on the overlay was not fed and was
\* answered INVALID with the validator's latestValidHash
C27_InvalidNotFed ==
    /\ step.op = "SpawnStageHeaders" /\ step.block = B /\ ~step.err
    /\ Len(step.calls) = 1 /\ step.calls[1].validationError
    /\ step.fed = <<>>
    /\ step.reply = [PayloadStatus("INVALID", A) EXCEPT !.validationError = TRUE]

\* C27: a payload on a side fork was validated with extendCanonical = false
C27_SideForkOnOverlay ==
    /\ step.op = "SpawnStageHeaders" /\ step.block = X /\ ~step.err
    /\ Len(step.calls) = 1 /\ step.calls[1].op = "ValidatePayload"
    /\ ~step.calls[1].extendCanonical /\ step.fed = <<X>>

\* ------------------------------------------------------------------------
\* schedulePoSDownload (SpecStage)
\* ------------------------------------------------------------------------

\* the step served a NewPayload whose parent header is absent: it called
\* schedulePoSDownload(requestId, parentHash, number - 1, hash)
PayloadNeedsDownload ==
    /\ step'.op = "SpawnStageHeaders" /\ order'.dequeued # order.dequeued
    /\ step'.block # ZeroHash /\ step'.path # "readParent"
    /\ ParentHash(step'.block) \notin db.headers

\* the step served a fork choice whose head header is absent: it called
\* schedulePoSDownload(requestId, head, 0, head)
HeadNeedsDownload ==
    /\ step'.op = "SpawnStageHeaders" /\ order'.dequeued # order.dequeued
    /\ step'.head # ZeroHash /\ step'.path # "readHeader"
    /\ step'.head # db.head /\ step'.head \notin db.headers

\* what schedulePoSDownload was asked to download in the step
Asked ==
    IF step'.block # ZeroHash
    THEN [requestId |-> step'.id, hash |-> ParentHash(step'.block),
          height |-> Number(step'.block) - 1, tip |-> step'.block]
    ELSE [requestId |-> step'.id, hash |-> step'.head, height |-> 0, tip |-> step'.head]

\* C28: if a PoS download is in progress (status not Idle) schedulePoSDownload
\* leaves the stored request id, downloader tip, header to download, header
\* collector and download status unchanged and the caller answers SYNCING;
\* otherwise it stores (requestId, hashToDownload, heightToDownload,
\* downloaderTip), installs a new, empty collector and sets the status to
\* Syncing (a NewPayload near the head may then wait for the download and
\* replay it in the same invocation, which closes the collector again).
C28_ScheduleOnce ==
    [][(PayloadNeedsDownload \/ HeadNeedsDownload) =>
          IF hd.posStatus # "Idle"
          THEN /\ hd'.requestId = hd.requestId
               /\ hd'.posDownloaderTip = hd.posDownloaderTip
               /\ hd'.headerToDownload = hd.headerToDownload
               /\ hd'.heightToDownload = hd.heightToDownload
               /\ hd'.headersCollector = hd.headersCollector
               /\ hd'.posStatus = hd.posStatus
               /\ step'.reply = Syncing
          ELSE /\ hd'.requestId = Asked.requestId
               /\ hd'.posDownloaderTip = Asked.tip
               /\ hd'.headerToDownload = Asked.hash
               /\ hd'.heightToDownload = Asked.height
               /\ \/ /\ hd'.posStatus = "Syncing"
                     /\ hd'.headersCollector = [headers |-> <<>>]
                     /\ step'.reply = Syncing
                  \/ /\ step'.block # ZeroHash
                     /\ AbsoluteDifference(Number(db.headBlock), Number(step'.block)) < 32
                     /\ hd'.posStatus = "Idle"
                     /\ hd'.headersCollector = Nil]_vars

\* C28 witness: a NewPayload with an absent parent was served while the
\* download for an earlier fork choice was in progress: SYNCING, and the
\* download is still the one of the fork choice
C28_BusyKeepsDownload ==
    /\ step.op = "SpawnStageHeaders" /\ step.block = C /\ step.id = 2
    /\ step.reply = Syncing /\ ~step.err
    /\ hd.posStatus = "Syncing" /\ hd.requestId = 1
    /\ hd.headerToDownload = B /\ hd.posDownloaderTip = B /\ hd.heightToDownload = 0

\* C28: a download was scheduled for the parent of a NewPayload
C28_Scheduled ==
    /\ step.op = "SpawnStageHeaders" /\ step.block = C /\ step.id = 1
    /\ step.reply = Syncing /\ ~step.err
    /\ hd.posStatus = "Syncing" /\ hd.requestId = 1
    /\ hd.headerToDownload = B /\ hd.posDownloaderTip = C /\ hd.heightToDownload = 2
    /\ hd.headersCollector = [headers |-> <<>>]

\* ------------------------------------------------------------------------
\* The replay of downloaded PoS headers (SpecStage)
\* ------------------------------------------------------------------------

\* the batch the step replays, in key order: the loaded collector, or, when a
\* NewPayload waits for its own download, the chain up to the payload's parent
ReplayedBatch ==
    IF hd.headersCollector # Nil THEN hd.headersCollector.headers
    ELSE MissingChain(db, ParentHash(step'.block))

\* the downloader tip of the replayed batch
ReplayedTip ==
    IF hd.headersCollector # Nil THEN hd.posDownloaderTip ELSE step'.block

\* the position of header h in the sequence hs
IndexIn(hs, h) == CHOOSE i \in DOMAIN hs : hs[i] = h

\* header h was fed into the HeaderInserter in the step
FedInStep(h) == \E k \in DOMAIN step'.fed : step'.fed[k] = h

\* C29: while a batch of downloaded PoS headers is replayed in key order,
\* after the first header that fails header verification or state validation
\* every later header of the batch is marked bad and none of them is fed into
\* the HeaderInserter; the failing header, all later headers and the
\* downloader tip are recorded with latestValidHash = the parent hash of the
\* first failing header.
C29_BadChainAfterFailure ==
    [][(step'.op = "SpawnStageHeaders" /\ step'.rejected # <<>>) =>
          LET first == step'.rejected[1]
              batch == ReplayedBatch
          IN  /\ Len(step'.rejected) = 1
              /\ \E i \in DOMAIN batch : batch[i] = first
              /\ \A j \in DOMAIN batch :
                    IF j < IndexIn(batch, first)
                    THEN FedInStep(batch[j])
                    ELSE /\ ~FedInStep(batch[j])
                         /\ batch[j] \in DOMAIN hd'.badHeaders
                         /\ hd'.badHeaders[batch[j]] = ParentHash(first)
              /\ ReplayedTip \in DOMAIN hd'.badHeaders
              /\ hd'.badHeaders[ReplayedTip] = ParentHash(first)
              /\ ~FedInStep(ReplayedTip)]_vars

\* C29 witness: in the replay of the batch B, C the header B failed; C was
\* not fed and B, C (the tip) are bad with latestValidHash A
C29_LaterHeaderBad ==
    /\ step.op = "SpawnStageHeaders" /\ step.rejected = <<B>> /\ step.fed = <<>>
    /\ {B, C} \subseteq DOMAIN hd.badHeaders
    /\ hd.badHeaders[B] = A /\ hd.badHeaders[C] = A
    /\ hd.headerToDownload = C /\ hd.posDownloaderTip = C /\ hd.posStatus = "Idle"

\* C29: in the replay of the batch B, C the header B was fed and C failed: C
\* is bad with latestValidHash B
C29_SecondHeaderFailed ==
    /\ step.op = "SpawnStageHeaders" /\ step.rejected = <<C>> /\ step.fed = <<B>>
    /\ C \in DOMAIN hd.badHeaders /\ hd.badHeaders[C] = B
    /\ B \notin DOMAIN hd.badHeaders
    /\ hd.headerToDownload = C /\ hd.posDownloaderTip = C /\ hd.posStatus = "Idle"

\* C29: the payload C waited for the download of its parent B, which failed:
\* the tip C is bad with latestValidHash A
C29_TipBad ==
    /\ step.op = "SpawnStageHeaders" /\ step.rejected = <<B>> /\ step.block = C
    /\ {B, C} \subseteq DOMAIN hd.badHeaders
    /\ hd.badHeaders[B] = A /\ hd.badHeaders[C] = A

\* call i of the step is a ValidatePayload call of the replay (body = nil)
\* that returned a critical error
ReplayCritical(i) ==
    /\ step'.calls[i].op = "ValidatePayload" /\ ~step'.calls[i].withBody
    /\ step'.calls[i].criticalError

\* C30: if ValidatePayload returns a critical error while the downloaded PoS
\* headers are replayed, the stage invocation fails with that error and the
\* error is not handled as a bad chain (no header is marked bad for it).
C30_CriticalPropagates ==
    [][(/\ step'.op = "SpawnStageHeaders"
        /\ \E i \in DOMAIN step'.calls : ReplayCritical(i))
       => /\ step'.err
          /\ hd'.badHeaders = hd.badHeaders]_vars

\* ------------------------------------------------------------------------
\* SpecFix: fixCanonicalChain from any stored header.  The store starts as in
\* SpecCanon; the index is truncated above any height and fixed from any
\* stored header, in any order, so that the index may hold the markers of
\* more than one chain.
\* ------------------------------------------------------------------------

\* fixCanonicalChain(header.Number, header.Hash()) for a stored header
CanonFixAt ==
    \E hash \in db.headers :
      \E fx \in {fixCanonicalChain(db, Number(hash), hash, "none")} :
        /\ db' = fx.d
        /\ step' = [NoStep EXCEPT !.op = "fixCanonicalChainAt", !.head = hash,
                                  !.err = fx.err, !.calls = fx.writes]
        /\ UNCHANGED <<sideForksBlock, extendingFork, extendingForkHeadHash,
                       currentHeight, validatePayload, memBatches, call, lockVars,
                       cfg, hd, PayloadStatusCh, loop, order>>

NextFix ==
    \/ CanonUnwind
    \/ CanonFixAt

SpecFix == InitCanon /\ [][NextFix]_vars

\* the height fixCanonicalChain(Number(hash), hash) stops at on index
\* canonical: the greatest n at or below the height whose marker is the
\* ancestor of hash at n (0 when there is none above 0)
StopHeight(canonical, hash) ==
    LET matching == {n \in 1..Number(hash) : canonical[n] = AncestorAt(hash, n)}
    IN  IF matching = {} THEN 0
        ELSE CHOOSE n \in matching : \A m \in matching : m <= n

\* C31: fixCanonicalChain(height, hash) sets canonical[n] to the ancestor of
\* hash at height n for n descending from height, stops at the first n whose
\* marker already is that ancestor, never rewrites canonical[0], and leaves
\* every marker above height and at or below the stopping height unchanged.
C31_FixCanonicalFrame ==
    [][(step'.op = "fixCanonicalChainAt" /\ ~step'.err) =>
          LET hash == step'.head
              height == Number(hash)
              stop == StopHeight(db.canonical, hash)
          IN  /\ \A n \in Numbers :
                    db'.canonical[n] = IF stop < n /\ n <= height
                                       THEN AncestorAt(hash, n)
                                       ELSE db.canonical[n]
              /\ db'.canonical[0] = db.canonical[0]
              /\ Len(step'.calls) = height - stop
              /\ \A i \in DOMAIN step'.calls :
                    step'.calls[i] = [height |-> height - i + 1,
                                      hash |-> AncestorAt(hash, height - i + 1)]
              /\ [db' EXCEPT !.canonical = db.canonical] = db]_vars

\* C31 witness: on the index G, A, B, C the chain of Y was fixed: the markers
\* of Y and X were written, the walk stopped at block 0 and the marker of C
\* above Y's height was left alone
C31_ForkMarkersWritten ==
    /\ step.op = "fixCanonicalChainAt" /\ step.head = Y /\ ~step.err
    /\ step.calls = <<[height |-> Number(Y), hash |-> Y], [height |-> Number(X), hash |-> X]>>
    /\ db.canonical[0] = G /\ db.canonical[1] = X /\ db.canonical[2] = Y
    /\ db.canonical[3] = C

\* C31 witness: the walk stopped above block 1 at a marker that matched,
\* leaving below it the markers of another chain
C31_StoppedAtMatch ==
    /\ step.op = "fixCanonicalChainAt" /\ step.head = C /\ ~step.err
    /\ step.calls = <<[height |-> Number(C), hash |-> C]>>
    /\ db.canonical[2] = B /\ db.canonical[1] = X

\* ------------------------------------------------------------------------
\* SpecUnwind: HeadersUnwind with and without a bad block, in test mode or
\* not.  The store starts as in SpecCanon; the headers stage is unwound to
\* any height at or below its progress, again and again.
\* ------------------------------------------------------------------------

InitUnwind ==
    /\ sideForksBlock = EmptyMap
    /\ extendingFork = Nil
    /\ extendingForkHeadHash = ZeroHash
    /\ validatePayload = FALSE
    /\ memBatches = 0
    /\ call = NoCall
    /\ \E h \in Hashes, others \in SUBSET Hashes :
          /\ others \cap Chain(h) = {}
          /\ currentHeight = Number(h)
          /\ db = [headers |-> Chain(h) \cup others,
                   canonical |-> ChainIndex(h),
                   bodies |-> Chain(h),
                   state |-> Chain(h),
                   head |-> h,
                   headBlock |-> h,
                   forkchoice |-> [head |-> ZeroHash, safe |-> ZeroHash,
                                   finalized |-> ZeroHash],
                   progress |-> [Headers |-> Number(h), Execution |-> Number(h),
                                 Finish |-> Number(h)]]
    /\ Quiet
    /\ cfg \in [memoryOverlay : {FALSE}, accumulator : {FALSE}, useExternalTx : {TRUE},
                terminalTotalDifficultyPassed : {TRUE}, test : BOOLEAN]
    /\ hd = NewHd
    /\ PayloadStatusCh = Nil
    /\ loop = [phase |-> "headers", initialCycle |-> TRUE, unwindPoint |-> Nil,
               durable |-> db, faults |-> 0, headCh |-> Nil]
    /\ step = NoStep
    /\ order = [dequeued |-> <<>>, replied |-> <<>>, serving |-> 0, pendingFor |-> 0,
                heads |-> <<>>, blocks |-> <<>>]

\* HeadersUnwind with u.UnwindPoint = k and u.BadBlock = b (the zero hash:
\* no bad block)
DoHeadersUnwind ==
    \E k \in Numbers, b \in Hashes \cup {ZeroHash} :
        /\ k <= db.progress.Headers
        /\ \E r \in {HeadersUnwind(Invocation("none", Outcome("ok", "ok", 0), ZeroHash,
                                                FALSE, "ok"), k, b)} :
              /\ db' = r.fv.db
              /\ hd' = r.hd
        /\ step' = [NoStep EXCEPT !.op = "HeadersUnwind", !.id = k, !.block = b]
        /\ UNCHANGED <<sideForksBlock, extendingFork, extendingForkHeadHash,
                       currentHeight, validatePayload, memBatches, call, lockVars,
                       cfg, PayloadStatusCh, loop, order>>

NextUnwind == DoHeadersUnwind

SpecUnwind == InitUnwind /\ [][NextUnwind]_vars

\* the step is a HeadersUnwind with a bad block
UnwoundBad == step'.op = "HeadersUnwind" /\ step'.block # ZeroHash

\* header h descends from b through parent links
Descends(h, b) == Number(h) > Number(b) /\ AncestorAt(h, Number(b)) = b

\* header h descends from b through stored headers that all have a number
\* greater than k
RECURSIVE DescendsAbove(_, _, _, _)
DescendsAbove(headers, h, b, k) ==
    /\ h \in headers /\ Number(h) > k
    /\ \/ ParentHash(h) = b
       \/ DescendsAbove(headers, ParentHash(h), b, k)

HeaviestGood(headers, bad) ==
    {h \in headers \ bad :
        \A g \in headers \ bad : TotalDifficulty(g) <= TotalDifficulty(h)}

\* C33: for every unwind request to UnwindPoint, with or without a bad
\* block, HeadersUnwind removes the canonical markers above UnwindPoint and
\* keeps the header rows, makes the block at UnwindPoint the head header
\* unless (bad block, test mode) a heaviest non-bad header is elected, and
\* sets the stage progress to the number of the new head header.
C33_UnwindSetsHead ==
    [][step'.op = "HeadersUnwind" =>
          LET k == step'.id
              elected == step'.block # ZeroHash /\ cfg.test
          IN  /\ \A n \in Numbers :
                    db'.canonical[n] = IF n > k THEN ZeroHash ELSE db.canonical[n]
              /\ db'.headers = db.headers
              /\ \/ db'.head = db.canonical[k]
                 \/ elected /\ db'.head \in HeaviestGood(db.headers, hd'.badPoWHeaders)
              /\ db'.head # ZeroHash => db'.progress.Headers = Number(db'.head)]_vars

\* C33, the case the code handles: the same for the unwind requests that
\* carry a bad block
C33_BadBlockUnwindSetsHead ==
    [][UnwoundBad =>
          LET k == step'.id
          IN  /\ \A n \in Numbers :
                    db'.canonical[n] = IF n > k THEN ZeroHash ELSE db.canonical[n]
              /\ db'.headers = db.headers
              /\ \/ db'.head = db.canonical[k]
                 \/ cfg.test /\ db'.head \in HeaviestGood(db.headers, hd'.badPoWHeaders)
              /\ db'.head # ZeroHash => db'.progress.Headers = Number(db'.head)]_vars

\* ------------------------------------------------------------------------
\* Properties of the stage loop (SpecStage), continued
\* ------------------------------------------------------------------------

\* the paths of startHandlingForkChoice
ForkChoicePaths == {"noop", "readHeader", "unknownHead", "flush", "reorg"}

\* call i of the step is a FlushExtendingFork that flushed the overlay
FlushedAt(i) ==
    /\ step'.calls[i].op = "FlushExtendingFork" /\ ~step'.calls[i].criticalError

\* C34: with the memory overlay enabled, after startHandlingForkChoice
\* returns through any path (no-op, unknown head, error, overlay flush,
\* re-org) the fork validator has no extending overlay and a zero
\* extendingForkHeadHash; the txpool receives an unwind notification on that
\* call only if the overlay was not flushed.
C34_ForkChoiceDropsOverlay ==
    [][(/\ step'.op = "SpawnStageHeaders" /\ cfg.memoryOverlay
        /\ step'.path \in ForkChoicePaths)
       => LET last == step'.calls[Len(step'.calls)]
          IN  /\ extendingFork' = Nil
              /\ extendingForkHeadHash' = ZeroHash
              /\ step'.calls # <<>> /\ last.op = "ClearWithUnwind"
              /\ \A i \in DOMAIN step'.calls :
                    step'.calls[i].op = "ClearWithUnwind" => i = Len(step'.calls)
              /\ last.notify # <<>> =>
                    /\ extendingFork # Nil
                    /\ \A i \in DOMAIN step'.calls : ~FlushedAt(i)]_vars

\* C34 witness: a fork choice that is not the overlay's head (a re-org) was
\* handled while B was validated on the overlay: the overlay was dropped and
\* the txpool was notified of the unwind
C34_OverlayDroppedWithNotice ==
    /\ step.op = "SpawnStageHeaders" /\ cfg.memoryOverlay /\ step.path = "reorg"
    /\ step.calls # <<>>
    /\ step.calls[Len(step.calls)].op = "ClearWithUnwind"
    /\ step.calls[Len(step.calls)].header = B
    /\ step.calls[Len(step.calls)].notify = UnwindNotification(B)
    /\ extendingFork = Nil /\ extendingForkHeadHash = ZeroHash

\* C34 witness: the flush failed, the handler returned the error, and the
\* overlay was dropped with a notification
C34_FailedFlushNotifies ==
    /\ step.op = "SpawnStageHeaders" /\ step.path = "flush" /\ step.err
    /\ Len(step.calls) = 2 /\ step.calls[1].criticalError
    /\ step.calls[2].notify # <<>>
    /\ extendingFork = Nil

\* C34 witness: the overlay was flushed and the deferred call sent nothing
C34_FlushedNoNotice ==
    /\ step.op = "SpawnStageHeaders" /\ step.path = "flush" /\ ~step.err
    /\ Len(step.calls) = 2 /\ step.calls[1].op = "FlushExtendingFork"
    /\ step.calls[2].op = "ClearWithUnwind" /\ step.calls[2].notify = <<>>
    /\ extendingFork = Nil /\ extendingForkHeadHash = ZeroHash

\* C35: for each dequeued request the stage produces at most one reply:
\* whenever an invocation pushes a status or a critical error to the reply
\* channel for a request, neither the pending payload hash nor the pending
\* payload status is left set for that same request, also when the handling
\* fails after the pending payload hash was set.
C35_AtMostOneReply ==
    [][step'.op = "SpawnStageHeaders" =>
          \A i \in DOMAIN step'.out :
              (hd'.pendingPayloadHash # ZeroHash \/ hd'.pendingPayloadStatus # Nil)
                  => order'.pendingFor # step'.out[i].for]_vars

\* the step replayed downloaded PoS headers: on the Synced interrupt, where
\* the invocation does nothing else, or with a validator call of the replay
\* that returned a critical error
ReplayStep ==
    /\ step'.op = "SpawnStageHeaders"
    /\ \/ step'.path = "interrupt" /\ hd.headersCollector # Nil
       \/ \E i \in DOMAIN step'.calls : ReplayCritical(i)

\* C36: during the replay of downloaded PoS headers a hash (a batch header or
\* the downloader tip) is added to the bad-header set only if some header of
\* the batch failed header verification or state validation; a critical
\* error alone marks no header and not the downloader tip.
C36_BadOnlyAfterFailure ==
    [][(ReplayStep /\ step'.rejected = <<>>) => hd'.badHeaders = hd.badHeaders]_vars

\* the header collector is present exactly when the PoS download status is
\* not Idle
CollectorIffBusy(h) == (h.headersCollector # Nil) <=> (h.posStatus # "Idle")

\* C37: across any interleaving of schedulePoSDownload, the downloader's
\* completion, the Synced interrupt and the close-to-head polling path, the
\* header collector is present exactly when the PoS download status is not
\* Idle; verifyAndSaveDownloadedPoSHeaders runs at most once per scheduled
\* download (it is entered with the status Synced, once in an invocation)
\* and never with an absent collector, and it ends with the collector
\* removed and the status Idle, whatever the outcome of the replay.
C37_CollectorLifecycle ==
    [][/\ CollectorIffBusy(hd) /\ CollectorIffBusy(hd')
       /\ step'.replays # <<>> =>
             /\ Len(step'.replays) = 1
             /\ step'.replays[1].collector
             /\ step'.replays[1].status = "Synced"
             /\ hd'.headersCollector = Nil /\ hd'.posStatus = "Idle"]_vars

\* C37 witness: the Synced interrupt was handled with the collector loaded,
\* the replay found a bad chain, and the collector is gone and the status Idle
C37_ReplayedOnInterrupt ==
    /\ step.op = "SpawnStageHeaders" /\ step.path = "interrupt"
    /\ Len(step.replays) = 1 /\ step.rejected # <<>>
    /\ hd.headersCollector = Nil /\ hd.posStatus = "Idle"

\* C37 witness: the polling path replayed its own download and the Synced
\* interrupt of that download is still to be handled, with no collector
C37_ReplayedWhilePolling ==
    /\ step.op = "SpawnStageHeaders" /\ step.path # "interrupt"
    /\ Len(step.replays) = 1
    /\ hd.interrupt = "Synced"
    /\ hd.headersCollector = Nil /\ hd.posStatus = "Idle"

\* C37 witness: the Synced interrupt that the polling path left behind was
\* handled without a replay
C37_StaleInterrupt ==
    /\ step.op = "SpawnStageHeaders" /\ step.path = "interrupt"
    /\ step.replays = <<>>
    /\ hd.interrupt = "None" /\ hd.headersCollector = Nil

\* ------------------------------------------------------------------------
\* SpecFinish: the finish stage with a head channel.  Payloads are validated
\* on the overlay and flushed, which moves the execution progress; the
\* finish stage runs in every cycle, and the subscriber reads headCh when it
\* likes.
\* ------------------------------------------------------------------------

InitFinish ==
    /\ InitFV /\ validatePayload
    /\ call = NoCall
    /\ Quiet
    /\ cfg \in [memoryOverlay : {TRUE}, accumulator : {TRUE}, useExternalTx : BOOLEAN,
                terminalTotalDifficultyPassed : {TRUE}, test : {FALSE}]
    /\ hd = NewHd
    /\ PayloadStatusCh = Nil
    /\ loop = [phase |-> "finish", initialCycle |-> FALSE, unwindPoint |-> Nil,
               durable |-> db, faults |-> 0, headCh |-> [buf |-> <<>>]]
    /\ step = NoStep
    /\ order = [dequeued |-> <<>>, replied |-> <<>>, serving |-> 0, pendingFor |-> 0,
                heads |-> <<>>, blocks |-> <<>>]

\* the headers stage has a payload validated on the overlay
StagePayload ==
    \E header \in ExtendPayloads, v \in {"ok", "error"} :
      \E res \in {ValidatePayload(Sys, StageTxn, header, RawBody(header), TRUE,
                                  Outcome(v, "ok", 0))} :
        /\ Install(res.s)
        /\ call' = res.r
        /\ step' = [NoStep EXCEPT !.op = "ValidatePayload", !.block = header]
        /\ UNCHANGED <<lockVars, cfg, hd, PayloadStatusCh, loop, order>>

\* the headers stage flushes the overlay
StageFlush ==
    /\ extendingFork # Nil
    /\ \E res \in {FlushExtendingFork(Sys, StageTxn, TRUE)} :
        /\ Install(res.s)
        /\ call' = res.r
        /\ step' = [NoStep EXCEPT !.op = "FlushExtendingFork"]
        /\ UNCHANGED <<lockVars, cfg, hd, PayloadStatusCh, loop, order>>

\* the cycle ends and the next one reaches the finish stage
NextCycle ==
    /\ loop.phase = "commit"
    /\ loop' = [loop EXCEPT !.phase = "finish", !.durable = db]
    /\ step' = [NoStep EXCEPT !.op = "NextCycle"]
    /\ UNCHANGED <<fvVars, lockVars, cfg, hd, PayloadStatusCh, order, call>>

\* the subscriber takes a block from headCh
ReadHeadCh ==
    /\ loop.headCh.buf # <<>>
    /\ loop' = [loop EXCEPT !.headCh.buf = Tail(@)]
    /\ step' = [NoStep EXCEPT !.op = "ReadHeadCh"]
    /\ UNCHANGED <<fvVars, lockVars, cfg, hd, PayloadStatusCh, order, call>>

NextFinish ==
    \/ StagePayload
    \/ StageFlush
    \/ DoFinishForward
    \/ NextCycle
    \/ ReadHeadCh

SpecFinish == InitFinish /\ [][NextFinish]_vars

C38_NothingToFinish ==
    /\ step.op = "FinishForward"
    /\ db.progress.Execution <= db.progress.Finish
    /\ extendingFork # Nil /\ extendingForkHeadHash = B
    /\ db.headBlock = A

\* ------------------------------------------------------------------------
\* Spec continued: the side-fork replay of ValidatePayload
\* ------------------------------------------------------------------------

\* the step is a ValidatePayload call with extendCanonical = false that
\* invoked validate
SideReplay ==
    /\ call'.op = "ValidatePayload" /\ ~call'.extendCanonical
    /\ call'.validate # "none"

\* the hashes of D that clean() keeps at the current height
WithinForkDepth(D) ==
    {h \in D : AbsoluteDifference(currentHeight, Number(h)) <= maxForkDepth}

\* C39 (as claimed): a ValidatePayload call with extendCanonical = false
\* that invokes validate leaves the extending overlay, extendingForkHeadHash
\* and the contents of the persistent transaction as they were, whatever
\* validate returns, and adds no segment to the side-fork cache but the
\* header under test.
C39_SideReplayFrameAsClaimed ==
    [][SideReplay =>
          /\ extendingFork' = extendingFork
          /\ extendingForkHeadHash' = extendingForkHeadHash
          /\ db' = db
          /\ DOMAIN sideForksBlock' \subseteq DOMAIN sideForksBlock \cup {call'.header}]_vars

\* C39 (amended): such a call never changes the persistent transaction or
\* currentHeight and leaves no batch of its own behind.  If validate
\* succeeds the extending overlay and extendingForkHeadHash are as before
\* and the header under test is added to the side-fork cache (unless its
\* body cannot be recovered: a criticalError, nothing added); if validate
\* returns an error the extending overlay is rolled back and removed,
\* extendingForkHeadHash is zero and nothing is added.  In every case the
\* deferred clean() then removes the segments that are more than
\* maxForkDepth away from currentHeight, and the segments that stay keep
\* their bodies.
C39_SideReplayFrame ==
    [][SideReplay =>
          /\ db' = db /\ currentHeight' = currentHeight
          /\ IF call'.validate = "error"
             THEN /\ extendingFork' = Nil /\ extendingForkHeadHash' = ZeroHash
                  /\ memBatches' = 0
                  /\ DOMAIN sideForksBlock' = WithinForkDepth(DOMAIN sideForksBlock)
             ELSE /\ extendingFork' = extendingFork
                  /\ extendingForkHeadHash' = extendingForkHeadHash
                  /\ memBatches' = memBatches
                  /\ DOMAIN sideForksBlock' =
                        WithinForkDepth(DOMAIN sideForksBlock
                                        \cup (IF call'.criticalError THEN {}
                                              ELSE {call'.header}))
          /\ \A h \in DOMAIN sideForksBlock' \cap DOMAIN sideForksBlock :
                sideForksBlock'[h] = sideForksBlock[h]]_vars

\* C39 witness: Y was replayed on a batch of its own over the cached X while
\* B was staged on the extending overlay; Y is cached and the overlay still
\* holds B alone
C39_SideReplayBesideOverlay ==
    /\ call.op = "ValidatePayload" /\ ~call.extendCanonical /\ call.path = "side"
    /\ call.header = Y /\ call.validate = "ok" /\ call.status = "VALID"
    /\ Y \in DOMAIN sideForksBlock
    /\ extendingFork # Nil /\ extendingForkHeadHash = B
    /\ extendingFork.writes = {B} /\ memBatches = 1

\* C39 witness: the replay of Y failed validation with B cached by an
\* earlier extension: the call ends without an overlay and without Y
C39_SideReplayInvalid ==
    /\ call.op = "ValidatePayload" /\ ~call.extendCanonical /\ call.path = "side"
    /\ call.header = Y /\ call.validate = "error" /\ call.status = "INVALID"
    /\ B \in DOMAIN sideForksBlock /\ Y \notin DOMAIN sideForksBlock
    /\ extendingFork = Nil /\ extendingForkHeadHash = ZeroHash

\* ------------------------------------------------------------------------
\* Properties of the stage loop (SpecStage): the beacon request list
\* ------------------------------------------------------------------------

\* the ids of the requests in a request list
Ids(requests) == {requests[i].id : i \in DOMAIN requests}

\* the paths on which the headers stage returns without dispatching a request
UndispatchedPaths ==
    {"none", "initialCycle", "stopping", "interrupt", "nilRequest", "wait", "finish",
     "transitioned", "pow", "powFix"}

\* the step is a HeadersPOS invocation that dispatched request step'.id to
\* startHandlingForkChoice or handleNewPayload
Dispatched ==
    /\ step'.op = "SpawnStageHeaders"
    /\ step'.path \notin UndispatchedPaths

\* the handler returned a critical error: HeadersPOS pushed it for the request
HandlerFailed ==
    /\ step'.err
    /\ \E i \in DOMAIN step'.out : step'.out[i].criticalError = "err"

\* C40: whenever startHandlingForkChoice or handleNewPayload returns without
\* a critical error the dispatched request, which was in the beacon request
\* list, is no longer in it; a request that is gone from the list never comes
\* back (ids are handed out once), so no later HeadersPOS invocation
\* dispatches it; and the request for which a download is scheduled is
\* removed before SetStatus(DataWasMissing), so no request left in the list
\* changes its status.
C40_RemovedOnReturn ==
    [][/\ (Dispatched /\ ~HandlerFailed) =>
              /\ step'.id \in Ids(hd.requests)
              /\ step'.id \notin Ids(hd'.requests)
       /\ \A id \in 1..MaxRequests :
              (id < hd.nextId /\ id \notin Ids(hd.requests)) => id \notin Ids(hd'.requests)
       /\ \A i \in DOMAIN hd'.requests :
              /\ hd'.requests[i].id < hd'.nextId
              /\ \/ \E j \in DOMAIN hd.requests : hd.requests[j] = hd'.requests[i]
                 \/ hd'.requests[i].id = hd.nextId /\ hd'.requests[i].status = "New"]_vars

\* C40 witness: NewPayload(C) with the parent B unknown was answered SYNCING
\* with the download of B scheduled for its request id, and the request is
\* gone from the list
C40_ScheduledAndRemoved ==
    /\ step.op = "SpawnStageHeaders" /\ ~step.err
    /\ step.block = C /\ step.path = "downloading"
    /\ hd.posStatus = "Syncing" /\ hd.requestId = step.id
    /\ hd.headerToDownload = B
    /\ step.id \notin Ids(hd.requests)
    /\ \E i \in DOMAIN step.out : step.out[i].status = "SYNCING" /\ step.out[i].for = step.id

\* C40 witness: after request 1 was served without an error a later
\* invocation dispatched request 2, and neither is in the list
C40_NextRequestDispatched ==
    /\ step.op = "SpawnStageHeaders" /\ ~step.err
    /\ step.path \notin UndispatchedPaths
    /\ step.id = 2 /\ order.dequeued = <<1, 2>>
    /\ Ids(hd.requests) = {}

\* C40 witness: handleNewPayload failed to read the parent header and
\* returned the error with the request still in the list
C40_FailedRequestStays ==
    /\ step.op = "SpawnStageHeaders" /\ step.err
    /\ step.path = "readParent"
    /\ step.id \in Ids(hd.requests)

====
